---- MODULE Spec2Model ----
(***************************************************************************)
(* Model of the mixchat k6 load-test harness (backend/load-tests).         *)
(*                                                                         *)
(* Scripts modelled:                                                       *)
(*   directGroup      chat-direct-group-load-test.js                       *)
(*   aiStress         chat-ai-stress-test.js                               *)
(*   comprehensive    chat-comprehensive-load-test.js                      *)
(*   comprehensiveAI  chat-comprehensive-with-ai-load-test.js              *)
(*   concurrency      chat-concurrency-test.js (listed in README.md)       *)
(*   messageRead      the group message read test (5 minute version)       *)
(*                                                                         *)
(* Specifications:                                                         *)
(*   SpecProfile  the stage list of a script driven by the k6 ramping      *)
(*                executor: virtual users 1..activeVUs are active          *)
(*   SpecSelect   the weighted scenario choice of the default functions    *)
(*   SpecCalls    joinGroupRoom, sendAIMessage and sendConcurrentMessage   *)
(*                of each script applied to a backend response             *)
(*   Spec         one run: setup, iterations of the virtual users,         *)
(*                teardown, against the backend (the four scripts in src)  *)
(***************************************************************************)
EXTENDS Integers, Sequences, FiniteSets, TLC

VARIABLES
    script,        \* which script is run
    profile,       \* value of TEST_DURATION / TEST_MODE
    phase,         \* position of the run in the k6 life cycle
    stageIdx,      \* SpecProfile: index of the current stage
    activeVUs,     \* SpecProfile: virtual users 1..activeVUs are active
    userType,      \* SpecSelect: the draw randomIntBetween(0, 99), -1 before
    ran,           \* SpecSelect: scenario functions called by the iteration
    counter,       \* k6 Counter metrics: name -> sum
    rate,          \* k6 Rate metrics: name -> [t: true samples, n: samples]
    consoleErrors, \* number of console.error calls
    lastCall,      \* SpecCalls: the helper call made last and what it did
    nCalls,        \* SpecCalls: number of helper calls made
    tokenCache,    \* Spec: ids with a token in setup's local tokenCache
    ownerToken,    \* Spec: setup's ownerToken is truthy
    roomIdx,       \* Spec: iterations done of setup's room creation loop
    sharedRooms,   \* Spec: loop indices of the rooms pushed to sharedRooms
    setupData,     \* Spec: the object setup returned
    sent,          \* Spec: requests sent by setup and teardown, by endpoint
    vuCache,       \* Spec: data.tokenCache as each virtual user sees it
    nIters,        \* Spec: iterations of the default function run so far
    lastIter,      \* Spec: what the last iteration did
    loggedIn,      \* Spec: user ids with a successful login so far
    taggedRooms,   \* Spec: group rooms with topic LOAD_TEST on the backend
    teardownResult,\* Spec: how teardown ended
    dupInRoom,     \* Spec: the backend gave two messages of a target room
                   \*       the same sequence number
    input,         \* SpecTrace, SpecBatch: what the code will meet
    trace,         \* SpecTrace, SpecBatch: the requests sent, in order
    batch          \* SpecBatch: loop index and counts of the batch login

Scripts ==
    {"directGroup", "aiStress", "comprehensive", "comprehensiveAI",
     "concurrency", "messageRead"}

St(d, t) == [duration |-> d, target |-> t]

(***************************************************************************)
(* LOAD_PROFILES of every script: stage lists (duration in seconds).       *)
(***************************************************************************)
LOAD_PROFILES_directGroup ==
    [short  |-> <<St(10, 10), St(20, 30), St(20, 60), St(10, 0)>>,
     medium |-> <<St(20, 20), St(30, 50), St(40, 80), St(40, 120),
                  St(30, 150), St(20, 0)>>,
     full   |-> <<St(20, 20), St(30, 50), St(40, 80), St(40, 120),
                  St(40, 150), St(20, 0)>>]

LOAD_PROFILES_aiStress ==
    [light  |-> <<St(30, 2), St(60, 5), St(60, 10), St(30, 0)>>,
     medium |-> <<St(30, 2), St(60, 5), St(60, 10), St(60, 20),
                  St(60, 5), St(30, 0)>>,
     full   |-> <<St(30, 2), St(60, 5), St(60, 10), St(60, 20),
                  St(60, 30), St(60, 50), St(60, 5), St(30, 0)>>]

LOAD_PROFILES_comprehensive ==
    [short  |-> <<St(30, 20), St(60, 50), St(60, 100), St(30, 0)>>,
     medium |-> <<St(60, 20), St(120, 100), St(120, 200), St(60, 300),
                  St(30, 0)>>,
     full   |-> <<St(60, 20), St(120, 100), St(120, 300), St(120, 500),
                  St(30, 800), St(60, 100), St(30, 0)>>]

LOAD_PROFILES_comprehensiveAI ==
    [short  |-> <<St(30, 20), St(60, 50), St(60, 100), St(30, 0)>>,
     medium |-> <<St(60, 30), St(120, 100), St(120, 200), St(120, 300),
                  St(60, 50), St(30, 0)>>,
     full   |-> <<St(60, 30), St(120, 100), St(120, 200), St(120, 350),
                  St(120, 500), St(60, 700), St(60, 100), St(30, 0)>>]

LOAD_PROFILES_concurrency ==
    [single |-> <<St(10, 10), St(30, 50), St(30, 100), St(10, 200),
                  St(30, 20), St(10, 0)>>,
     multi  |-> <<St(10, 10), St(30, 100), St(30, 200), St(30, 50),
                  St(10, 0)>>,
     spike  |-> <<St(10, 10), St(5, 500), St(20, 10), St(5, 500),
                  St(20, 10), St(10, 0)>>]

\* options.stages of the message read test: an inline list, no profile name
messageReadStages ==
    <<St(30, 50), St(60, 50), St(30, 100), St(60, 100), St(30, 200),
      St(60, 200), St(30, 0)>>

\* the scripts that pick their stage list by a profile name
ProfileScripts == Scripts \ {"messageRead"}

LOAD_PROFILES(s) ==
    CASE s = "directGroup"     -> LOAD_PROFILES_directGroup
      [] s = "aiStress"        -> LOAD_PROFILES_aiStress
      [] s = "comprehensive"   -> LOAD_PROFILES_comprehensive
      [] s = "comprehensiveAI" -> LOAD_PROFILES_comprehensiveAI
      [] s = "concurrency"     -> LOAD_PROFILES_concurrency

ProfileNames(s) ==
    IF s \in ProfileScripts THEN DOMAIN LOAD_PROFILES(s) ELSE {}

\* TEST_DURATION || "full", TEST_MODE || "single"
DefaultProfile(s) == IF s = "concurrency" THEN "single" ELSE "full"

\* LOAD_PROFILES[TEST_DURATION] is undefined for a name that is no key
ProfileKnown(s, p) == s \notin ProfileScripts \/ p \in ProfileNames(s)

StagesOfNoCooldown(s, p) ==
    IF s = "messageRead" THEN SubSeq(messageReadStages, 1, Len(messageReadStages) - 1)
    ELSE IF p \in ProfileNames(s)
         THEN SubSeq(LOAD_PROFILES(s)[p], 1, Len(LOAD_PROFILES(s)[p]) - 1)
         ELSE << >>

\* options.stages; << >> stands for undefined
StagesOf(s, p) ==
    IF s = "messageRead" THEN messageReadStages
    ELSE IF p \in ProfileNames(s) THEN LOAD_PROFILES(s)[p] ELSE << >>

\* users.length of the SharedArray "test users"
usersLength(s) ==
    CASE s = "messageRead" -> 5
      [] s = "aiStress" -> 50
      [] OTHER -> 100

userIndexOffByOne(s, vu) == (vu - 1) % (usersLength(s) - 1)

\* const userIndex = (__VU - 1) % users.length
userIndex(s, vu) == (vu - 1) % usersLength(s)

\* options.maxVUs of the direct-group script
maxVUs == 160

\* bound: helper calls made in SpecCalls
MaxCalls == 3

\* bound: size of the users pool in Spec (100 in the scripts)
NumUsers == 2

\* bound: virtual users in Spec when the stage targets exceed the pool
MaxVU == 3

\* bound: iterations of the default function in one run of Spec
MaxIters == 2

\* bound: iterations of setup's room creation loop walked in Spec
MaxRooms == 1

vars ==
    <<script, profile, phase, stageIdx, activeVUs, userType, ran,
      counter, rate, consoleErrors, lastCall, nCalls,
      tokenCache, ownerToken, roomIdx, sharedRooms, setupData, sent, vuCache,
      nIters, lastIter, loggedIn, taggedRooms, teardownResult, dupInRoom,
      input, trace, batch>>

selVars == <<userType, ran>>

metricVars == <<counter, rate, consoleErrors>>

callVars == <<counter, rate, consoleErrors, lastCall, nCalls>>

driverVars == <<stageIdx, activeVUs>>

runVars ==
    <<tokenCache, ownerToken, roomIdx, sharedRooms, setupData, sent, vuCache,
      nIters, lastIter, loggedIn, taggedRooms, teardownResult, dupInRoom>>

\* what the actions of one specification leave alone
traceVars == <<input, trace, batch>>

notDriver == <<selVars, callVars, runVars, traceVars>>
notSelect == <<callVars, runVars, traceVars>>
notCalls == <<driverVars, selVars, runVars, traceVars>>
notRun == <<driverVars, selVars, callVars, traceVars>>
notTrace == <<driverVars, selVars, callVars, runVars>>

Counters ==
    {"rooms_joined", "ai_messages_total", "ai_room_messages",
     "ai_response_success", "ai_response_failed", "ai_response_timeout",
     "messages_sent_concurrent", "messages_success_concurrent",
     "messages_failed_concurrent", "sequence_duplicates",
     "translation_requested", "translation_by_ollama",
     "translation_by_openai", "translation_failed", "messages_sent"}

Rates ==
    {"ai_success_rate", "ai_timeout_rate", "ai_error_rate",
     "concurrency_success_rate", "concurrency_timeout_rate",
     "translation_success_rate", "translation_ollama_success_rate",
     "translation_fallback_rate", "message_success_rate"}

NoCall == [fn |-> "none"]

InitMetrics ==
    /\ counter = [c \in Counters |-> 0]
    /\ rate = [r \in Rates |-> [t |-> 0, n |-> 0]]
    /\ consoleErrors = 0

InitCalls ==
    /\ InitMetrics
    /\ lastCall = NoCall
    /\ nCalls = 0

\* setup has not returned
NoData ==
    [isNull |-> FALSE, hasTokenCache |-> FALSE, tokenCache |-> {},
     hasSharedRooms |-> FALSE, sharedRooms |-> {}, startTime |-> FALSE]

NoIter == [vu |-> 0]

NoRequests ==
    [login |-> 0, createRoom |-> 0, seedMessage |-> 0, cleanup |-> 0,
     join |-> 0, verify |-> 0]

NoInput == [kind |-> "none"]

\* let loginSuccessCount = 0; let loginFailCount = 0; and i = 0
NoBatch == [i |-> 0, loginSuccessCount |-> 0, loginFailCount |-> 0]

InitTrace ==
    /\ input = NoInput
    /\ trace = << >>
    /\ batch = NoBatch

\* nothing of the run has happened
InitRun ==
    /\ tokenCache = {}
    /\ ownerToken = FALSE
    /\ roomIdx = 0
    /\ sharedRooms = {}
    /\ setupData = NoData
    /\ sent = NoRequests
    /\ vuCache = [v \in 1..MaxVU |-> {}]
    /\ nIters = 0
    /\ lastIter = NoIter
    /\ loggedIn = {}
    /\ taggedRooms = 0
    /\ teardownResult = "pending"
    /\ dupInRoom = FALSE

(***************************************************************************)
(* SpecProfile: the ramping executor follows options.stages. It moves the  *)
(* number of active virtual users towards the target of the current stage  *)
(* (virtual users 1..activeVUs are the active ones), then takes the next   *)
(* stage; after the last stage the load phase is over.                     *)
(***************************************************************************)
CurrentTarget == StagesOf(script, profile)[stageIdx].target

InitProfile ==
    /\ script \in Scripts
    /\ profile \in (IF script \in ProfileScripts THEN ProfileNames(script)
                    ELSE {DefaultProfile(script)})
    /\ phase = "load"
    /\ stageIdx = 1
    /\ activeVUs = 0
    /\ userType = -1
    /\ ran = << >>
    /\ InitCalls
    /\ InitRun
    /\ InitTrace

RampUp ==
    /\ phase = "load"
    /\ activeVUs < CurrentTarget
    /\ script = "directGroup" => activeVUs < maxVUs
    /\ activeVUs' = activeVUs + 1
    /\ UNCHANGED <<script, profile, phase, stageIdx, notDriver>>

RampDown ==
    /\ phase = "load"
    /\ activeVUs > CurrentTarget
    /\ activeVUs' = activeVUs - 1
    /\ UNCHANGED <<script, profile, phase, stageIdx, notDriver>>

NextStage ==
    /\ phase = "load"
    /\ activeVUs = CurrentTarget
    /\ stageIdx < Len(StagesOf(script, profile))
    /\ stageIdx' = stageIdx + 1
    /\ UNCHANGED <<script, profile, phase, activeVUs, notDriver>>

StagesDone ==
    /\ phase = "load"
    /\ activeVUs = CurrentTarget
    /\ stageIdx = Len(StagesOf(script, profile))
    /\ phase' = "ended"
    /\ UNCHANGED <<script, profile, stageIdx, activeVUs, notDriver>>

NextProfile == RampUp \/ RampDown \/ NextStage \/ StagesDone

SpecProfile == InitProfile /\ [][NextProfile]_vars

(***************************************************************************)
(* SpecSelect: the default function draws userType (scenarioType in the    *)
(* ai-stress script) and walks an if / else-if chain; the last arm is the  *)
(* plain else.                                                             *)
(***************************************************************************)
Arm(b, f) == [below |-> b, scenario |-> f]

\* the scripts whose default function draws a scenario
DrawScripts == {"directGroup", "aiStress", "comprehensive", "comprehensiveAI"}

\* the if / else-if arms, in the order written
ScenarioArms(s) ==
    CASE s = "directGroup" ->
           <<Arm(20, "directChatFocusedScenario"),
             Arm(70, "groupChatCasualScenario"),
             Arm(90, "groupChatActiveScenario"),
             Arm(95, "roomManagerScenario")>>
      [] s = "aiStress" ->
           <<Arm(30, "rolePlayScenario"),
             Arm(55, "tutorPersonalScenario"),
             Arm(75, "tutorSimilarScenario"),
             Arm(90, "feedbackScenario")>>
      [] s = "comprehensive" ->
           <<Arm(60, "casualUserScenario"),
             Arm(90, "activeChatScenario"),
             Arm(95, "roomManagerScenario")>>
      [] s = "comprehensiveAI" ->
           <<Arm(20, "translationFocusedScenario"),
             Arm(40, "feedbackFocusedScenario"),
             Arm(55, "aiChatFocusedScenario"),
             Arm(85, "casualUserScenario"),
             Arm(95, "activeUserScenario")>>

\* the scenario of the final else
ElseScenario(s) ==
    CASE s = "directGroup"     -> "mixedUserScenario"
      [] s = "aiStress"        -> "mixedAIScenario"
      [] s = "comprehensive"   -> "aiChatScenario"
      [] s = "comprehensiveAI" -> "roomManagerScenario"

ArmTakenNoElse(s, k, d) == d < ScenarioArms(s)[k].below

\* arm k is entered: its condition holds and no earlier condition did
ArmTaken(s, k, d) ==
    /\ d < ScenarioArms(s)[k].below
    /\ \A j \in 1..(k - 1) : ~(d < ScenarioArms(s)[j].below)

ElseTaken(s, d) ==
    \A j \in 1..Len(ScenarioArms(s)) : ~(d < ScenarioArms(s)[j].below)

\* the scenario calls one pass through the chain makes for draw d, in order
ScenarioCalls(s, d) ==
    LET arms == ScenarioArms(s)
        F[k \in 0..Len(arms)] ==
            IF k = 0 THEN << >>
            ELSE IF ArmTaken(s, k, d) THEN Append(F[k - 1], arms[k].scenario)
                 ELSE F[k - 1]
    IN  IF ElseTaken(s, d) THEN Append(F[Len(arms)], ElseScenario(s))
        ELSE F[Len(arms)]

\* the percentage in the doc comment above each scenario function (the
\* scenarios of the ai-stress script carry none)
DocPercent(s) ==
    CASE s = "directGroup" ->
           [directChatFocusedScenario |-> 20, groupChatCasualScenario |-> 50,
            groupChatActiveScenario |-> 20, roomManagerScenario |-> 5,
            mixedUserScenario |-> 5]
      [] s = "comprehensive" ->
           [casualUserScenario |-> 60, activeChatScenario |-> 30,
            aiChatScenario |-> 10, roomManagerScenario |-> 5]
      [] s = "comprehensiveAI" ->
           [translationFocusedScenario |-> 20, feedbackFocusedScenario |-> 20,
            aiChatFocusedScenario |-> 15, casualUserScenario |-> 30,
            activeUserScenario |-> 10, roomManagerScenario |-> 5]

InitSelect ==
    /\ script \in DrawScripts
    /\ profile = DefaultProfile(script)
    /\ phase = "load"
    /\ stageIdx = 1
    /\ activeVUs = 1
    /\ userType = -1
    /\ ran = << >>
    /\ InitCalls
    /\ InitRun
    /\ InitTrace

\* one iteration of the default function: one draw, then the chain
DefaultDraw ==
    /\ \E d \in 0..99 :
         /\ userType' = d
         /\ ran' = ScenarioCalls(script, d)
    /\ UNCHANGED <<script, profile, phase, driverVars, notSelect>>

NextSelect == DefaultDraw

SpecSelect == InitSelect /\ [][NextSelect]_vars

(***************************************************************************)
(* SpecCalls: the helper functions applied to one backend response each.   *)
(***************************************************************************)
Statuses == {0, 200, 400, 500}

\* the body: JSON with a data value, JSON with data null, or not JSON
Bodies == {"data", "null", "garbage"}

\* a k6 response; a request that timed out or got no answer has status 0
Responses ==
    {r \in [status : Statuses, body : Bodies, timed_out : BOOLEAN] :
        /\ r.timed_out => r.status = 0
        /\ r.status = 0 => r.body = "garbage"}

\* what one helper call did: return value, counters incremented by one,
\* rate samples added, console.error calls, outcome of its check (if any)
Outcome(ret, inc, samples, errors, checkOk) ==
    [ret |-> ret, inc |-> inc, samples |-> samples, errors |-> errors,
     checkOk |-> checkOk]

JoinScripts ==
    {"directGroup", "comprehensive", "comprehensiveAI", "concurrency",
     "messageRead"}

joinGroupRoom(s, r) ==
    LET ok200 == r.status = 200
        okBoth == r.status = 200 \/ r.status = 400
    IN  CASE s = "directGroup" ->
               Outcome(ok200, IF ok200 THEN {"rooms_joined"} ELSE {}, {},
                       IF ok200 THEN 0 ELSE 1, ok200)
          [] s = "comprehensive" ->
               Outcome(okBoth /\ r.status = 200, {}, {}, 0, okBoth)
          [] s = "comprehensiveAI" -> Outcome(okBoth, {}, {}, 0, "none")
          [] s = "concurrency" -> Outcome(okBoth, {}, {}, 0, "none")
          [] s = "messageRead" -> Outcome(okBoth, {}, {}, 0, okBoth)

SendAIScripts == {"aiStress", "comprehensiveAI"}

sendAIMessageTimeoutOnly(s, r) ==
    LET total == IF s = "aiStress" THEN "ai_messages_total"
                 ELSE "ai_room_messages"
        success == IF s = "aiStress"
                   THEN r.status = 200 /\ r.body = "data"
                   ELSE r.status = 200
    IN  IF success
        THEN Outcome(TRUE, {total, "ai_response_success"},
                     {<<"ai_success_rate", TRUE>>, <<"ai_timeout_rate", FALSE>>}
                        \cup (IF s = "aiStress"
                              THEN {<<"ai_error_rate", FALSE>>} ELSE {}),
                     0, TRUE)
        ELSE IF r.timed_out
        THEN Outcome(FALSE, {total, "ai_response_timeout"},
                     {<<"ai_success_rate", FALSE>>, <<"ai_timeout_rate", TRUE>>}
                        \cup (IF s = "aiStress"
                              THEN {<<"ai_error_rate", FALSE>>} ELSE {}),
                     IF s = "aiStress" THEN 1 ELSE 0, FALSE)
        ELSE Outcome(FALSE, {total, "ai_response_failed"},
                     {<<"ai_success_rate", FALSE>>, <<"ai_timeout_rate", FALSE>>}
                        \cup (IF s = "aiStress"
                              THEN {<<"ai_error_rate", TRUE>>} ELSE {}),
                     IF s = "aiStress" THEN 1 ELSE 0, FALSE)

sendAIMessageErrorOnTimeout(s, r) ==
    LET success == IF s = "aiStress"
                   THEN r.status = 200 /\ r.body = "data"
                   ELSE r.status = 200
    IN  Outcome(success,
                {IF s = "aiStress" THEN "ai_messages_total"
                 ELSE "ai_room_messages",
                 IF success THEN "ai_response_success"
                 ELSE "ai_response_failed"}
                   \cup (IF ~success /\ r.timed_out
                         THEN {"ai_response_timeout"} ELSE {}),
                {<<"ai_success_rate", success>>,
                 <<"ai_timeout_rate", ~success /\ r.timed_out>>}
                   \cup (IF s = "aiStress"
                         THEN {<<"ai_error_rate", ~success>>} ELSE {}),
                IF s = "aiStress" /\ ~success THEN 1 ELSE 0, success)

sendAIMessage(s, r) ==
    LET total == IF s = "aiStress" THEN "ai_messages_total"
                 ELSE "ai_room_messages"
        \* ai-stress also checks that the parsed body has non-null data
        success == IF s = "aiStress"
                   THEN r.status = 200 /\ r.body = "data"
                   ELSE r.status = 200
    IN  IF success
        THEN Outcome(TRUE, {total, "ai_response_success"},
                     {<<"ai_success_rate", TRUE>>, <<"ai_timeout_rate", FALSE>>}
                        \cup (IF s = "aiStress"
                              THEN {<<"ai_error_rate", FALSE>>} ELSE {}),
                     0, TRUE)
        ELSE IF r.timed_out
        THEN Outcome(FALSE,
                     {total, "ai_response_failed", "ai_response_timeout"},
                     {<<"ai_success_rate", FALSE>>, <<"ai_timeout_rate", TRUE>>}
                        \cup (IF s = "aiStress"
                              THEN {<<"ai_error_rate", FALSE>>} ELSE {}),
                     IF s = "aiStress" THEN 1 ELSE 0, FALSE)
        ELSE Outcome(FALSE, {total, "ai_response_failed"},
                     {<<"ai_success_rate", FALSE>>, <<"ai_timeout_rate", FALSE>>}
                        \cup (IF s = "aiStress"
                              THEN {<<"ai_error_rate", TRUE>>} ELSE {}),
                     IF s = "aiStress" THEN 1 ELSE 0, FALSE)

\* the latency sendMessage measures, in ms, and its enableTranslation
\* argument
SendMessageArgs == [latency : {2999, 3000}, enableTranslation : BOOLEAN]

sendMessageFallbackAlways(r, a) ==
    LET success == r.status = 200
        t == a.enableTranslation
    IN  Outcome(success,
                (IF t THEN {"translation_requested"} ELSE {})
                   \cup (IF t /\ ~success THEN {"translation_failed"} ELSE {})
                   \cup (IF t /\ success /\ r.body # "garbage"
                         THEN {"translation_by_openai"} ELSE {})
                   \cup (IF success THEN {"messages_sent"} ELSE {}),
                (IF t THEN {<<"translation_success_rate", success>>} ELSE {})
                   \cup (IF t /\ success /\ r.body # "garbage"
                         THEN {<<"translation_fallback_rate", TRUE>>}
                         ELSE {})
                   \cup {<<"message_success_rate", success>>},
                0, success)

\* sendMessage of the comprehensive-with-ai script; JSON.parse of the body
\* stands in a try whose catch does nothing
sendMessage(r, a) ==
    LET success == r.status = 200
        t == a.enableTranslation
        parsed == t /\ success /\ r.body # "garbage"
        ollama == parsed /\ a.latency < 3000
        openai == parsed /\ ~(a.latency < 3000)
    IN  Outcome(success,
                (IF t THEN {"translation_requested"} ELSE {})
                   \cup (IF t /\ ~success THEN {"translation_failed"} ELSE {})
                   \cup (IF ollama THEN {"translation_by_ollama"} ELSE {})
                   \cup (IF openai THEN {"translation_by_openai"} ELSE {})
                   \cup (IF success THEN {"messages_sent"} ELSE {}),
                (IF t THEN {<<"translation_success_rate", success>>} ELSE {})
                   \cup (IF ollama
                         THEN {<<"translation_ollama_success_rate", TRUE>>,
                               <<"translation_fallback_rate", FALSE>>}
                         ELSE {})
                   \cup (IF openai
                         THEN {<<"translation_fallback_rate", TRUE>>}
                         ELSE {})
                   \cup {<<"message_success_rate", success>>},
                0, success)

\* analyzeAIFeedback of the ai-stress script: the check is the status alone
analyzeAIFeedback(r) ==
    IF r.status = 200
    THEN Outcome(TRUE, {"ai_response_success"}, {}, 0, TRUE)
    ELSE Outcome(FALSE,
                 {"ai_response_failed"}
                    \cup (IF r.timed_out THEN {"ai_response_timeout"} ELSE {}),
                 {}, 0, FALSE)

sendConcurrentMessage(r) ==
    IF r.status = 200
    THEN Outcome(TRUE,
                 {"messages_sent_concurrent", "messages_success_concurrent"},
                 {<<"concurrency_success_rate", TRUE>>,
                  <<"concurrency_timeout_rate", FALSE>>}, 0, TRUE)
    ELSE Outcome(FALSE,
                 {"messages_sent_concurrent", "messages_failed_concurrent"},
                 {<<"concurrency_success_rate", FALSE>>,
                  <<"concurrency_timeout_rate", r.timed_out>>}, 1, FALSE)

\* Counter.add(1) for every counter of inc
AddCounters(c, inc) ==
    [k \in Counters |-> IF k \in inc THEN c[k] + 1 ELSE c[k]]

\* Rate.add(sample) for every sample
AddSamples(rt, samples) ==
    [k \in Rates |->
        [t |-> rt[k].t + (IF <<k, TRUE>> \in samples THEN 1 ELSE 0),
         n |-> rt[k].n + Cardinality({b \in BOOLEAN : <<k, b>> \in samples})]]

\* the call is made and its metrics are recorded
Record(fn, r, o) ==
    /\ counter' = AddCounters(counter, o.inc)
    /\ rate' = AddSamples(rate, o.samples)
    /\ consoleErrors' = consoleErrors + o.errors
    /\ lastCall' = [fn |-> fn, resp |-> r, out |-> o]
    /\ nCalls' = nCalls + 1

\* a message page: the sequence numbers of its messages, in page order
\* sequence numbers a page may hold; 4 leaves a gap after 2
SeqNos == {1, 2, 4}

MaxPage == 3

Pages == UNION {[1..n -> SeqNos] : n \in 0..MaxPage}

Range(q) == {q[i] : i \in 1..Len(q)}

\* the answer to GET .../messages?chatRoomType=GROUP&size=100
\*   "page"    JSON with data.messagePageResp.contents
\*   "nopage"  JSON without data.messagePageResp
\*   "garbage" no JSON
VerifyResponses ==
    {r \in [status : {200, 500}, body : {"page", "nopage", "garbage"},
            seqs : Pages] : r.body # "page" => r.seqs = << >>}

\* verifyMessageSequences(token, roomId) on response r: the value returned,
\* the amount added to sequence_duplicates, the console.error lines
verifyAddsOne(r) ==
    [ret |-> r.status = 200 /\ r.body = "page"
                /\ Len(r.seqs) = Cardinality(Range(r.seqs)),
     added |-> 1,
     adds |-> r.status = 200 /\ r.body = "page"
                /\ Len(r.seqs) # Cardinality(Range(r.seqs)),
     errors |-> IF r.status = 200 /\ (r.body # "page"
                     \/ Len(r.seqs) # Cardinality(Range(r.seqs)))
                THEN 1 ELSE 0]

verifyMessageSequences(r) ==
    IF r.status = 200
    THEN IF r.body = "page"
         THEN IF Len(r.seqs) # Cardinality(Range(r.seqs))
              THEN [ret |-> FALSE,
                    added |-> Len(r.seqs) - Cardinality(Range(r.seqs)),
                    adds |-> TRUE, errors |-> 1]
              ELSE [ret |-> TRUE, added |-> 0, adds |-> FALSE, errors |-> 0]
         ELSE \* JSON.parse or the property read throws: catch
              [ret |-> FALSE, added |-> 0, adds |-> FALSE, errors |-> 1]
    ELSE [ret |-> FALSE, added |-> 0, adds |-> FALSE, errors |-> 0]

\* sequenceDuplicates.add(duplicates), where the call made it
AddDuplicates(c, o) ==
    IF o.adds THEN [c EXCEPT !["sequence_duplicates"] = @ + o.added] ELSE c

InitSpecCalls ==
    /\ script \in JoinScripts \cup SendAIScripts
    /\ profile = DefaultProfile(script)
    /\ phase = "load"
    /\ stageIdx = 1
    /\ activeVUs = 1
    /\ userType = -1
    /\ ran = << >>
    /\ InitCalls
    /\ InitRun
    /\ InitTrace

CallJoinGroupRoom ==
    /\ script \in JoinScripts
    /\ nCalls < MaxCalls
    /\ \E r \in Responses : Record("joinGroupRoom", r, joinGroupRoom(script, r))
    /\ UNCHANGED <<script, profile, phase, notCalls>>

CallSendAIMessage ==
    /\ script \in SendAIScripts
    /\ nCalls < MaxCalls
    /\ \E r \in Responses : Record("sendAIMessage", r, sendAIMessage(script, r))
    /\ UNCHANGED <<script, profile, phase, notCalls>>

CallSendConcurrentMessage ==
    /\ script = "concurrency"
    /\ nCalls < MaxCalls
    /\ \E r \in Responses :
         Record("sendConcurrentMessage", r, sendConcurrentMessage(r))
    /\ UNCHANGED <<script, profile, phase, notCalls>>

CallSendMessage ==
    /\ script = "comprehensiveAI"
    /\ nCalls < MaxCalls
    /\ \E r \in Responses, a \in SendMessageArgs :
         /\ Record("sendMessage", r, sendMessage(r, a))
         /\ input' = [kind |-> "sendMessage", latency |-> a.latency,
                      enableTranslation |-> a.enableTranslation]
    /\ UNCHANGED <<script, profile, phase, driverVars, selVars, runVars,
                   trace, batch>>

CallAnalyzeAIFeedback ==
    /\ script = "aiStress"
    /\ nCalls < MaxCalls
    /\ \E r \in Responses :
         Record("analyzeAIFeedback", r, analyzeAIFeedback(r))
    /\ UNCHANGED <<script, profile, phase, notCalls>>

\* bound: calls of verifyMessageSequences made in SpecVerify
MaxVerifyCalls == 2

CallVerifyMessageSequences ==
    /\ script = "concurrency"
    /\ nCalls < MaxVerifyCalls
    /\ \E r \in VerifyResponses :
         LET o == verifyMessageSequences(r)
         IN  /\ counter' = AddDuplicates(counter, o)
             /\ consoleErrors' = consoleErrors + o.errors
             /\ lastCall' = [fn |-> "verifyMessageSequences", resp |-> r,
                             out |-> o]
             /\ nCalls' = nCalls + 1
             /\ UNCHANGED rate
    /\ UNCHANGED <<script, profile, phase, notCalls>>

NextCalls ==
    \/ CallJoinGroupRoom
    \/ CallSendAIMessage
    \/ CallSendConcurrentMessage
    \/ CallAnalyzeAIFeedback
    \/ CallSendMessage

SpecCalls == InitSpecCalls /\ [][NextCalls]_vars

(***************************************************************************)
(* SpecVerify: verifyMessageSequences of the concurrency test applied to   *)
(* one answer of the message endpoint each.                                *)
(***************************************************************************)
InitSpecVerify ==
    /\ script = "concurrency"
    /\ profile = DefaultProfile(script)
    /\ phase = "teardown"
    /\ stageIdx = 1
    /\ activeVUs = 0
    /\ userType = -1
    /\ ran = << >>
    /\ InitCalls
    /\ InitRun
    /\ InitTrace

NextVerify == CallVerifyMessageSequences

SpecVerify == InitSpecVerify /\ [][NextVerify]_vars

(***************************************************************************)
(* Spec: one run of a script. k6 calls setup once, hands a copy of the     *)
(* returned object to every virtual user and to teardown, runs iterations  *)
(* of the default function during the load phase and calls teardown after  *)
(* it. An exception in setup aborts the run; teardown is not called then.  *)
(* Login responses are JSON, as the backend sends them.                    *)
(***************************************************************************)
RunScripts == Scripts

\* a profile name that is no key of LOAD_PROFILES
UnknownProfile == "bogus"

\* TEST_DURATION / TEST_MODE values a run is started with: the default, a
\* name that is no key and, for the concurrency test, its other two modes
RunProfiles(s) ==
    {DefaultProfile(s), UnknownProfile}
        \cup (IF s = "concurrency" THEN {"multi", "spike"} ELSE {})

Users == 1..NumUsers

\* users[0].id
ownerUserId == 1

\* setup prints LOAD_PROFILES[TEST_DURATION].length before anything else
SetupReadsProfile(s) ==
    s \in {"directGroup", "aiStress", "comprehensive", "concurrency"}

\* setup logs in and creates shared rooms
SetupCreatesRooms(s) == s # "aiStress"

\* setup creates one target room and lets every user join it: the message
\* read test, and the concurrency test in the modes single and spike
SingleTarget(s, p) ==
    s = "messageRead" \/ (s = "concurrency" /\ p \in {"single", "spike"})

\* setup creates its rooms with topic "LOAD_TEST", the tag the cleanup
\* endpoint looks for; the concurrency test uses "CONCURRENCY_TEST"
SetupTopicTagged(s) == s # "concurrency"

\* the message read setup goes on without a token when the owner login
\* fails; the other setups return
SetupIgnoresOwnerLogin(s) == s = "messageRead"

\* seed messages the message read setup sends to its room
messageReadSeed == 100

\* const roomSizes = [...] of the direct-group setup
roomSizes == <<5, 5, 10, 10, 10, 20, 20, 30, 30, 50, 50, 50, 100, 100, 100>>

\* number of passes of setup's room creation loop
SetupRoomCount(s) == IF s = "directGroup" THEN Len(roomSizes) ELSE 10

RoomsWalked(s) ==
    IF SetupRoomCount(s) < MaxRooms THEN SetupRoomCount(s) ELSE MaxRooms

\* seed messages sent for the room made by pass i of the loop
InitialMessages(s, i) ==
    CASE s = "directGroup" ->
           (IF roomSizes[i] * 2 < 20 THEN roomSizes[i] * 2 ELSE 20)
      [] s = "concurrency" -> 0
      [] OTHER -> 20

\* the largest stage target; 1 when options.stages is undefined
MaxTarget(s, p) ==
    LET st == StagesOf(s, p)
        ts == {st[i].target : i \in 1..Len(st)}
    IN  IF st = << >> THEN 1 ELSE CHOOSE t \in ts : \A x \in ts : x <= t

\* ids (__VU) of the virtual users that run iterations: with the pool scaled
\* to NumUsers, more virtual users than users where the targets exceed
\* users.length; one virtual user where options.stages is undefined
RunVUs(s, p) ==
    IF StagesOf(s, p) = << >> THEN {1}
    ELSE IF MaxTarget(s, p) > usersLength(s) THEN 1..MaxVU
    ELSE 1..NumUsers

\* k6 runs one iteration where options.stages is undefined
IterLimit(s, p) == IF StagesOf(s, p) = << >> THEN 1 ELSE MaxIters

\* users[(__VU - 1) % users.length].id, in the pool of NumUsers
runUser(v) == ((v - 1) % NumUsers) + 1

RoomLoopEnteredAlways(s, tok) == TRUE

\* the direct-group setup wraps the room creation loop in if (ownerToken);
\* the other setups have returned by then when the owner login failed
RoomLoopEntered(s, tok) == s = "directGroup" => tok

\* if (!ownerToken) after the batch login of the direct-group setup
NeedsOwnerRetry(cache) == ownerUserId \notin cache

NeedsLoginAlways(s, cache, u) == TRUE

\* the iteration sends a login request: the direct-group default function
\* only if (!token); every scenario of the other scripts starts with login
NeedsLogin(s, cache, u) == s # "directGroup" \/ u \notin cache

\* the scenario calls createGroupChat with topic "LOAD_TEST"
CreatesTaggedRoom(s, f) ==
    s \in {"directGroup", "comprehensiveAI"} /\ f = "roomManagerScenario"

\* the backend answers a room creation with 200: the room exists
BackendCreate(rooms, created) == IF created THEN rooms + 1 ELSE rooms

\* the cleanup endpoint deletes every load-test-tagged room when it
\* answers 200
BackendCleanup(rooms, status) == IF status = 200 THEN 0 ELSE rooms

\* the object setup returns; a has* field tells whether the key is present
\* the concurrency setup returns null where complete is FALSE and
\* { mode, targetRoomId | targetRooms, startTime } otherwise (sharedRooms
\* holds the target rooms); the message read setup returns { testRoomId }
SetupResult(s, cache, rooms, complete) ==
    CASE s = "directGroup" ->
           [isNull |-> FALSE, hasTokenCache |-> TRUE, tokenCache |-> cache,
            hasSharedRooms |-> TRUE, sharedRooms |-> rooms,
            startTime |-> TRUE]
      [] s = "aiStress" ->
           [isNull |-> FALSE, hasTokenCache |-> FALSE, tokenCache |-> {},
            hasSharedRooms |-> FALSE, sharedRooms |-> {},
            startTime |-> TRUE]
      [] s = "concurrency" ->
           [isNull |-> ~complete, hasTokenCache |-> FALSE, tokenCache |-> {},
            hasSharedRooms |-> complete, sharedRooms |-> rooms,
            startTime |-> complete]
      [] s = "messageRead" ->
           [isNull |-> FALSE, hasTokenCache |-> FALSE, tokenCache |-> {},
            hasSharedRooms |-> TRUE, sharedRooms |-> rooms,
            startTime |-> FALSE]
      [] OTHER ->
           [isNull |-> FALSE, hasTokenCache |-> FALSE, tokenCache |-> {},
            hasSharedRooms |-> TRUE, sharedRooms |-> rooms,
            startTime |-> complete]

\* setup returns data: every virtual user gets its own copy, load begins
Return(data) ==
    /\ setupData' = data
    /\ vuCache' = [v \in 1..MaxVU |-> data.tokenCache]
    /\ phase' = "load"

InitRunSpec ==
    /\ script \in RunScripts
    /\ profile \in RunProfiles(script)
    /\ phase = "init"
    /\ stageIdx = 1
    /\ activeVUs = 0
    /\ userType = -1
    /\ ran = << >>
    /\ InitCalls
    /\ InitRun
    /\ InitTrace

\* setup up to its first request: the banner
SetupBanner ==
    /\ phase = "init"
    /\ IF SetupReadsProfile(script) /\ ~ProfileKnown(script, profile)
       THEN \* TypeError: cannot read property 'length' of undefined
            /\ phase' = "aborted"
            /\ UNCHANGED <<setupData, vuCache>>
       ELSE IF SetupCreatesRooms(script)
       THEN /\ phase' = "setup_login"
            /\ UNCHANGED <<setupData, vuCache>>
       ELSE Return(SetupResult(script, {}, {}, TRUE))
    /\ UNCHANGED <<script, profile, notRun, tokenCache, ownerToken, roomIdx,
                   sharedRooms, sent, nIters, lastIter, loggedIn, taggedRooms,
                   teardownResult, dupInRoom>>

\* direct-group: the batch login of all users; the others: login of the
\* owner, and return { sharedRooms: [] } when it fails
SetupLogin ==
    /\ phase = "setup_login"
    /\ IF script = "directGroup"
       THEN \E ok \in SUBSET Users :
              /\ tokenCache' = ok
              /\ loggedIn' = ok
              /\ ownerToken' = (ownerUserId \in ok)
              /\ sent' = [sent EXCEPT !.login = @ + NumUsers]
              /\ phase' = IF NeedsOwnerRetry(ok) THEN "setup_retry"
                          ELSE "setup_rooms"
              /\ UNCHANGED <<setupData, vuCache>>
       ELSE \E ok \in BOOLEAN :
              /\ ownerToken' = ok
              /\ loggedIn' = IF ok THEN {ownerUserId} ELSE {}
              /\ sent' = [sent EXCEPT !.login = @ + 1]
              /\ UNCHANGED tokenCache
              /\ IF ok \/ SetupIgnoresOwnerLogin(script)
                 THEN phase' = "setup_rooms" /\ UNCHANGED <<setupData, vuCache>>
                 ELSE Return(SetupResult(script, {}, {}, FALSE))
    /\ UNCHANGED <<script, profile, notRun, roomIdx, sharedRooms, nIters,
                   lastIter, taggedRooms, teardownResult, dupInRoom>>

\* direct-group: one more login of the owner when the batch left no token
SetupOwnerRetry ==
    /\ phase = "setup_retry"
    /\ sent' = [sent EXCEPT !.login = @ + 1]
    /\ \E ok \in BOOLEAN :
         IF ok
         THEN /\ ownerToken' = TRUE
              /\ tokenCache' = tokenCache \cup {ownerUserId}
              /\ loggedIn' = loggedIn \cup {ownerUserId}
         ELSE UNCHANGED <<ownerToken, tokenCache, loggedIn>>
    /\ phase' = "setup_rooms"
    /\ UNCHANGED <<script, profile, notRun, roomIdx, sharedRooms, setupData,
                   vuCache, nIters, lastIter, taggedRooms, teardownResult,
                   dupInRoom>>

\* one pass of the room creation loop: createGroupChat, and the seed
\* messages if the room was created
SetupCreateRoom ==
    /\ phase = "setup_rooms"
    /\ ~SingleTarget(script, profile)
    /\ RoomLoopEntered(script, ownerToken)
    /\ roomIdx < RoomsWalked(script)
    /\ roomIdx' = roomIdx + 1
    /\ \E created \in BOOLEAN :
         /\ taggedRooms' =
               BackendCreate(taggedRooms, created /\ SetupTopicTagged(script))
         /\ sharedRooms' = IF created THEN sharedRooms \cup {roomIdx + 1}
                           ELSE sharedRooms
         /\ sent' = [sent EXCEPT
                       !.createRoom = @ + 1,
                       !.seedMessage =
                          @ + (IF created
                               THEN InitialMessages(script, roomIdx + 1)
                               ELSE 0)]
    /\ UNCHANGED <<script, profile, phase, notRun, tokenCache, ownerToken,
                   setupData, vuCache, nIters, lastIter, loggedIn,
                   teardownResult, dupInRoom>>

\* the one target room: createGroupRoom, return null (concurrency) or throw
\* (message read) if it was not created, else a login and a join for every
\* user, the seed messages of the message read test, and the return
SetupTargetRoom ==
    /\ phase = "setup_rooms"
    /\ SingleTarget(script, profile)
    /\ \E created \in BOOLEAN, ok \in SUBSET Users :
         /\ ~ownerToken => ~created
         /\ ~created => ok = {}
         /\ taggedRooms' =
               BackendCreate(taggedRooms, created /\ SetupTopicTagged(script))
         /\ sharedRooms' = IF created THEN {1} ELSE {}
         /\ loggedIn' = loggedIn \cup ok
         /\ sent' = [sent EXCEPT
                       !.createRoom = @ + 1,
                       !.login = @ + (IF created THEN NumUsers ELSE 0),
                       !.join = @ + (IF ~created THEN 0
                                     ELSE IF script = "messageRead"
                                     THEN NumUsers ELSE Cardinality(ok)),
                       !.seedMessage =
                          @ + (IF created /\ script = "messageRead"
                               THEN messageReadSeed ELSE 0)]
         /\ IF created
            THEN Return(SetupResult(script, {}, {1}, TRUE))
            ELSE IF script = "messageRead"
            THEN \* throw new Error("Failed to create test room")
                 phase' = "aborted" /\ UNCHANGED <<setupData, vuCache>>
            ELSE Return(SetupResult(script, {}, {}, FALSE))
    /\ UNCHANGED <<script, profile, notRun, tokenCache, ownerToken, roomIdx,
                   nIters, lastIter, teardownResult, dupInRoom>>

\* the loop is over or was skipped: return the data object
SetupReturn ==
    /\ phase = "setup_rooms"
    /\ ~SingleTarget(script, profile)
    /\ ~RoomLoopEntered(script, ownerToken) \/ roomIdx = RoomsWalked(script)
    /\ Return(SetupResult(script, tokenCache, sharedRooms, TRUE))
    /\ UNCHANGED <<script, profile, notRun, tokenCache, ownerToken, roomIdx,
                   sharedRooms, sent, nIters, lastIter, loggedIn, taggedRooms,
                   teardownResult, dupInRoom>>

\* the draws Spec takes: 0 and every threshold of the chain, which is one
\* draw for every arm and one for the else
Draws(s) ==
    IF s \in DrawScripts
    THEN {0} \cup {ScenarioArms(s)[k].below : k \in 1..Len(ScenarioArms(s))}
    ELSE {0}

\* the function the default function of the concurrency test calls for
\* data.mode, which is TEST_MODE
ModeScenario(mode) ==
    CASE mode = "single" -> "singleRoomBombardment"
      [] mode = "multi"  -> "multiRoomDistributed"
      [] mode = "spike"  -> "spikeAttack"
      [] OTHER           -> "none"

\* what an iteration runs after its login: the scenario drawn, the scenario
\* of the mode, or the page read of the message read test
IterationScenario(s, p, d) ==
    CASE s \in DrawScripts  -> ScenarioCalls(s, d)[1]
      [] s = "concurrency"  -> ModeScenario(p)
      [] s = "messageRead"  -> "getMessages"

AfterLoginAlways(token) == TRUE

\* const token = login(...); if (!token) return;  (direct-group: the
\* default function returns when neither the cache nor login gave a token)
AfterLogin(token) == token

\* multiRoomDistributed reads room.id of randomItem(targetRooms), which is
\* undefined for an empty list: a TypeError ends the iteration
ScenarioRaises(f, rooms) == f = "multiRoomDistributed" /\ rooms = {}

DataMissingNever(data) == FALSE

\* if (!data) at the top of default and teardown of the concurrency test
DataMissing(data) == data.isNull

\* one iteration of the default function by virtual user v
Iteration(v) ==
    /\ phase = "load"
    /\ nIters < IterLimit(script, profile)
    /\ v \in RunVUs(script, profile)
    /\ \E d \in Draws(script), loginOk \in BOOLEAN, created \in BOOLEAN,
          dup \in BOOLEAN :
         LET u == runUser(v)
             \* the concurrency default function: if (!data) return
             dataOk == ~DataMissing(setupData)
             sends == dataOk /\ NeedsLogin(script, vuCache[v], u)
             token == dataOk /\ (IF sends THEN loginOk ELSE TRUE)
             \* the direct-group default function draws after the login
             entered == dataOk /\ (script = "directGroup" => AfterLogin(token))
             f == IF entered THEN IterationScenario(script, profile, d)
                  ELSE "none"
             raised == entered /\ AfterLogin(token)
                          /\ ScenarioRaises(f, setupData.sharedRooms)
             body == entered /\ AfterLogin(token) /\ ~raised
             creates == body /\ CreatesTaggedRoom(script, f)
             bursts == body /\ script = "concurrency"
         IN  /\ ~sends => ~loginOk
             /\ ~creates => ~created
             /\ ~bursts => ~dup
             /\ vuCache' = IF script = "directGroup" /\ sends /\ loginOk
                           THEN [vuCache EXCEPT ![v] = @ \cup {u}]
                           ELSE vuCache
             /\ loggedIn' = IF sends /\ loginOk THEN loggedIn \cup {u}
                            ELSE loggedIn
             /\ taggedRooms' = BackendCreate(taggedRooms, created)
             /\ dupInRoom' = (dupInRoom \/ dup)
             /\ lastIter' = [vu |-> v, user |-> u, loginSent |-> sends,
                             loginOk |-> loginOk, scenario |-> f,
                             createSent |-> creates, created |-> created,
                             bodyRan |-> body, raised |-> raised]
    /\ nIters' = nIters + 1
    /\ UNCHANGED <<script, profile, phase, notRun, tokenCache, ownerToken,
                   roomIdx, sharedRooms, setupData, sent, teardownResult>>

\* the stages are over
LoadEnds ==
    /\ phase = "load"
    /\ phase' = "teardown"
    /\ UNCHANGED <<script, profile, notRun, runVars>>

\* the teardown of the concurrency test verifies sequences
TeardownVerifies(mode, rooms) == mode = "single" /\ rooms # {}

teardownOwnerTokenAlways(data) == TRUE

\* const ownerToken = tokenCache[1] of the direct-group teardown, as truthy
teardownOwnerToken(data) == ownerUserId \in data.tokenCache

\* teardown(data), with the object setup returned
Teardown ==
    /\ phase = "teardown"
    /\ phase' = "done"
    /\ CASE ~setupData.hasTokenCache /\ script = "comprehensiveAI" ->
              \* data.tokenCache is undefined: tokenCache[1] is a TypeError
              /\ teardownResult' = "threw"
              /\ UNCHANGED <<sent, taggedRooms, counter, consoleErrors>>
         [] script = "directGroup" ->
              /\ UNCHANGED <<counter, consoleErrors>>
              /\ IF ~teardownOwnerToken(setupData)
                 THEN /\ teardownResult' = "noToken"
                      /\ UNCHANGED <<sent, taggedRooms>>
                 ELSE \E status \in {200, 500} :
                        /\ sent' = [sent EXCEPT !.cleanup = @ + 1]
                        /\ taggedRooms' = BackendCleanup(taggedRooms, status)
                        /\ teardownResult' = IF status = 200 THEN "cleaned"
                                             ELSE "cleanupFailed"
         [] script = "concurrency" ->
              /\ UNCHANGED taggedRooms
              /\ IF DataMissing(setupData)
                 THEN \* if (!data) return
                      /\ teardownResult' = "returned"
                      /\ UNCHANGED <<sent, counter, consoleErrors>>
                 ELSE IF ~TeardownVerifies(profile, setupData.sharedRooms)
                 THEN /\ teardownResult' = "summary"
                      /\ UNCHANGED <<sent, counter, consoleErrors>>
                 ELSE \E ok \in BOOLEAN, r \in VerifyResponses :
                        LET o == verifyMessageSequences(r)
                        IN  \* a room without duplicates has none in its page
                            /\ (~dupInRoom /\ r.body = "page") =>
                                   Len(r.seqs) = Cardinality(Range(r.seqs))
                            /\ ~ok => r = [status |-> 500, body |-> "garbage",
                                           seqs |-> << >>]
                            /\ sent' = [sent EXCEPT
                                          !.login = @ + 1,
                                          !.verify = @ + (IF ok THEN 1 ELSE 0)]
                            /\ counter' = IF ok THEN AddDuplicates(counter, o)
                                          ELSE counter
                            /\ consoleErrors' =
                                  consoleErrors + (IF ok THEN o.errors ELSE 0)
                            /\ teardownResult' =
                                  IF ~ok THEN "noToken"
                                  ELSE IF o.ret THEN "verified"
                                  ELSE "verifyFailed"
         [] OTHER ->
              \* the summary is printed, nothing is sent
              /\ teardownResult' = "summary"
              /\ UNCHANGED <<sent, taggedRooms, counter, consoleErrors>>
    /\ UNCHANGED <<script, profile, driverVars, selVars, traceVars, rate,
                   lastCall, nCalls, tokenCache, ownerToken, roomIdx, sharedRooms,
                   setupData, vuCache, nIters, lastIter, loggedIn, dupInRoom>>

Next ==
    \/ SetupBanner
    \/ SetupLogin
    \/ SetupOwnerRetry
    \/ SetupCreateRoom
    \/ SetupTargetRoom
    \/ SetupReturn
    \/ \E v \in 1..MaxVU : Iteration(v)
    \/ LoadEnds
    \/ Teardown

Spec == InitRunSpec /\ [][Next]_vars

(***************************************************************************)
(* SpecTrace: one iteration of the direct-group default function that      *)
(* draws groupChatCasualScenario or roomManagerScenario, or one chat       *)
(* scenario of the ai-stress script, as the list of requests it sends.     *)
(* What the iteration meets (the cache, the answers of the backend, the    *)
(* random numbers) is drawn in Init.                                       *)
(***************************************************************************)
CasualRooms == 1..MaxRooms

Ev(req, room, size) == [req |-> req, room |-> room, size |-> size]

\* randomItem(items), with pick the item Math.random() lands on
randomItem(items, pick) == IF pick \in items THEN pick ELSE CHOOSE x \in items : TRUE

CasualInputs ==
    [kind : {"casual"},
     cached : BOOLEAN,               \* tokenCache[user.id] is set
     loginOk : BOOLEAN,              \* login answers 200 with a token
     shared : SUBSET CasualRooms,    \* data.sharedRooms
     list1 : SUBSET CasualRooms,     \* first answer of getGroupRoomList
     list2 : SUBSET CasualRooms,     \* its answer after the join
     list3 : SUBSET CasualRooms,     \* its answer after the public join
     noPassword : SUBSET CasualRooms,\* public rooms without password
     pick : CasualRooms,
     readDraw : BOOLEAN,             \* Math.random() < 0.7
     sendDraw : BOOLEAN]             \* Math.random() < 0.3

\* groupRooms.length === 0
GroupRoomsEmpty(list) == list = {}

\* groupChatCasualScenario(user, token, sharedRooms)
groupChatCasualScenario(in) ==
    LET first == <<Ev("getGroupRoomList", 0, 0)>>
        viaShared == GroupRoomsEmpty(in.list1) /\ in.shared # {}
        afterShared ==
            IF viaShared
            THEN <<Ev("joinGroupRoom", randomItem(in.shared, in.pick), 0),
                   Ev("getGroupRoomList", 0, 0)>>
            ELSE << >>
        rooms2 == IF viaShared THEN in.list2 ELSE in.list1
        viaPublic == GroupRoomsEmpty(in.list1) /\ GroupRoomsEmpty(rooms2)
        publicJoin == viaPublic /\ in.noPassword # {}
        afterPublic ==
            IF ~viaPublic THEN << >>
            ELSE <<Ev("getPublicGroupRooms", 0, 0)>> \o
                 (IF publicJoin
                  THEN <<Ev("joinGroupRoom",
                            randomItem(in.noPassword, in.pick), 0),
                         Ev("getGroupRoomList", 0, 0)>>
                  ELSE << >>)
        groupRooms == IF publicJoin THEN in.list3 ELSE rooms2
        prefix == first \o afterShared \o afterPublic
    IN  IF GroupRoomsEmpty(groupRooms) THEN prefix
        ELSE LET room == randomItem(groupRooms, in.pick)
             IN  prefix
                   \o (IF in.readDraw
                       THEN <<Ev("getMessages", room, 30)>> ELSE << >>)
                   \o (IF in.sendDraw
                       THEN <<Ev("sendMessage", room, 0)>> ELSE << >>)

defaultCasualNoCacheWrite(in) ==
    IF in.cached \/ ~in.loginOk THEN groupChatCasualScenario(in)
    ELSE <<Ev("login", 0, 0)>> \o groupChatCasualScenario(in)

\* the default function up to its scenario, for a draw in 20..69
defaultCasual(in) ==
    IF in.cached THEN groupChatCasualScenario(in)
    ELSE IF in.loginOk
    THEN <<Ev("login", 0, 0), Ev("cacheToken", 0, 0)>>
            \o groupChatCasualScenario(in)
    ELSE <<Ev("login", 0, 0)>>

ManagerInputs ==
    [kind : {"manager"},
     created : BOOLEAN,       \* createGroupChat returns a room
     inviteDraw : BOOLEAN,    \* Math.random() < 0.3
     newMemberOk : BOOLEAN,   \* the user drawn is neither self nor invited
     nMessages : 3..5,        \* passes of the message loop
     transferDraw : BOOLEAN,  \* Math.random() < 0.1
     hasInvited : BOOLEAN,    \* inviteMembers.length > 0
     leaveDraw : BOOLEAN]     \* Math.random() < 0.2

\* roomManagerScenario(user, token, users)
roomManagerScenario(in) ==
    IF ~in.created THEN <<Ev("createGroupChat", 0, 0)>>
    ELSE <<Ev("createGroupChat", 0, 0), Ev("sendMessage", 1, 0)>>
           \o (IF in.inviteDraw /\ in.newMemberOk
               THEN <<Ev("inviteMember", 1, 0), Ev("sendMessage", 1, 0)>>
               ELSE << >>)
           \o [i \in 1..in.nMessages |-> Ev("sendMessage", 1, 0)]
           \o (IF in.transferDraw /\ in.hasInvited
               THEN <<Ev("transferOwnership", 1, 0)>> ELSE << >>)
           \o (IF in.leaveDraw THEN <<Ev("leaveRoom", 1, 0)>> ELSE << >>)

\* the chat scenarios of the ai-stress script
AIChatScenarios ==
    {"rolePlayScenario", "tutorPersonalScenario", "tutorSimilarScenario"}

\* const conversations = randomIntBetween(3, 7), questions = ...(5, 10),
\* questions = ...(3, 6)
ConversationCounts(f) ==
    CASE f = "rolePlayScenario"      -> 3..7
      [] f = "tutorPersonalScenario" -> 5..10
      [] f = "tutorSimilarScenario"  -> 3..6

AIChatInputs ==
    UNION {[kind : {"aiChat"},
            scenario : {f},
            loginOk : BOOLEAN,     \* login returns a token
            hasRoom : BOOLEAN,     \* the room list holds a room of the type
            createOk : BOOLEAN,    \* createAIRoom returns a room
            conversations : {n},
            failed : SUBSET (1..n)]\* the passes whose sendAIMessage fails
           : <<f, n>> \in {<<g, k>> \in AIChatScenarios \X (3..10) :
                             k \in ConversationCounts(g)}}

\* const success = sendAIMessage(...); if (success) { getAIMessages } else
\* { sleep(2) }: pass i of the conversation loop
conversationPass(in, i) ==
    IF i \in in.failed THEN <<Ev("sendAIMessage", 1, 0)>>
    ELSE <<Ev("sendAIMessage", 1, 0), Ev("getAIMessages", 1, 0)>>

\* rolePlayScenario(user), tutorPersonalScenario(user) and
\* tutorSimilarScenario(user), which differ in the room type and the count
aiChatScenario(in) ==
    LET Passes[i \in 0..in.conversations] ==
            IF i = 0 THEN << >> ELSE Passes[i - 1] \o conversationPass(in, i)
    IN  IF ~in.loginOk THEN <<Ev("login", 0, 0)>>
        ELSE <<Ev("login", 0, 0), Ev("getAIRoomList", 0, 0)>>
               \o (IF in.hasRoom THEN << >> ELSE <<Ev("createAIRoom", 0, 0)>>)
               \o (IF in.hasRoom \/ in.createOk
                   THEN Passes[in.conversations] ELSE << >>)

InitTraceSpec ==
    /\ script \in {"directGroup", "aiStress"}
    /\ profile = DefaultProfile(script)
    /\ phase = "load"
    /\ stageIdx = 1
    /\ activeVUs = 0
    /\ userType = -1
    /\ ran = << >>
    /\ InitCalls
    /\ InitRun
    /\ input \in IF script = "directGroup"
                  THEN CasualInputs \cup ManagerInputs ELSE AIChatInputs
    /\ trace = << >>
    /\ batch = NoBatch

CasualIteration ==
    /\ phase = "load"
    /\ input.kind = "casual"
    /\ trace' = defaultCasual(input)
    /\ phase' = "iterated"
    /\ UNCHANGED <<script, profile, input, batch, notTrace>>

\* the iteration of a virtual user with a token that draws 90..94
ManagerIteration ==
    /\ phase = "load"
    /\ input.kind = "manager"
    /\ trace' = roomManagerScenario(input)
    /\ phase' = "iterated"
    /\ UNCHANGED <<script, profile, input, batch, notTrace>>

\* the iteration of the ai-stress script that draws a chat scenario
AIChatIteration ==
    /\ phase = "load"
    /\ input.kind = "aiChat"
    /\ trace' = aiChatScenario(input)
    /\ phase' = "iterated"
    /\ UNCHANGED <<script, profile, input, batch, notTrace>>

NextTrace == CasualIteration \/ ManagerIteration \/ AIChatIteration

SpecTrace == InitTraceSpec /\ [][NextTrace]_vars

(***************************************************************************)
(* SpecBatch: the batch login at the start of the direct-group setup. The  *)
(* pool and the batch size are scaled down; the answer every user's login  *)
(* request will get is drawn in Init.                                      *)
(***************************************************************************)
\* bound: size of the users pool in SpecBatch (100 in the script)
NumBatchUsers == 5

\* bound: const loginBatchSize (20 in the script)
loginBatchSize == 2

\* the answer to a login request of the batch
\*   "token"   200, data a non-empty string
\*   "empty"   200, data missing or empty
\*   "fail"    a status other than 200
\*   "garbage" 200, body no JSON
LoginAnswers == {"token", "empty", "fail", "garbage"}

BatchInputs ==
    [kind : {"batch"}, resp : [1..NumBatchUsers -> LoginAnswers]]

batchUsersOverlapping(n, b, i) ==
    [k \in 1..((IF i + b + 1 < n THEN i + b + 1 ELSE n) - i) |-> i + k]

\* users.slice(i, i + loginBatchSize), as user ids, for a pool of n users
\* with the ids 1..n and batch size b
batchUsers(n, b, i) ==
    [k \in 1..((IF i + b < n THEN i + b ELSE n) - i) |-> i + k]

\* the users of the batch whose responses are processed: JSON.parse throws
\* at the first body that is no JSON
Processed(us, resp) ==
    LET bad == {k \in 1..Len(us) : resp[us[k]] = "garbage"}
    IN  IF bad = {} THEN {us[k] : k \in 1..Len(us)}
        ELSE {us[k] : k \in 1..((CHOOSE m \in bad : \A x \in bad : m <= x) - 1)}

InitSpecBatch ==
    /\ script = "directGroup"
    /\ profile = DefaultProfile(script)
    /\ phase = "batch_login"
    /\ stageIdx = 1
    /\ activeVUs = 0
    /\ userType = -1
    /\ ran = << >>
    /\ InitCalls
    /\ InitRun
    /\ input \in BatchInputs
    /\ trace = << >>
    /\ batch = NoBatch

\* one pass of for (let i = 0; i < users.length; i += loginBatchSize)
BatchLogin ==
    /\ phase = "batch_login"
    /\ batch.i < NumBatchUsers
    /\ LET us == batchUsers(NumBatchUsers, loginBatchSize, batch.i)
           done == Processed(us, input.resp)
           threw == \E k \in 1..Len(us) : input.resp[us[k]] = "garbage"
           got == {u \in done : input.resp[u] = "token"}
       IN  /\ trace' = Append(trace, us)
           /\ tokenCache' = tokenCache \cup got
           /\ loggedIn' = loggedIn \cup got
           /\ sent' = [sent EXCEPT !.login = @ + Len(us)]
           /\ consoleErrors' = consoleErrors + Cardinality(done \ got)
           /\ batch' = [i |-> batch.i + loginBatchSize,
                        loginSuccessCount |->
                           batch.loginSuccessCount + Cardinality(got),
                        loginFailCount |->
                           batch.loginFailCount + Cardinality(done \ got)]
           /\ phase' = IF threw THEN "aborted" ELSE "batch_login"
    /\ UNCHANGED <<script, profile, driverVars, selVars, input, counter, rate,
                   lastCall, nCalls, ownerToken, roomIdx, sharedRooms,
                   setupData, vuCache, nIters, lastIter, taggedRooms,
                   teardownResult, dupInRoom>>

\* the loop condition fails: the counts are printed
BatchLoginDone ==
    /\ phase = "batch_login"
    /\ ~(batch.i < NumBatchUsers)
    /\ phase' = "batch_done"
    /\ ownerToken' = (ownerUserId \in tokenCache)
    /\ UNCHANGED <<script, profile, notRun, tokenCache, roomIdx, sharedRooms,
                   setupData, sent, vuCache, nIters, lastIter, loggedIn,
                   taggedRooms, teardownResult, dupInRoom>>

NextBatch == BatchLogin \/ BatchLoginDone

SpecBatch == InitSpecBatch /\ [][NextBatch]_vars

(***************************************************************************)
(* SpecRooms: the shared room loop of setup in the direct-group and the    *)
(* two comprehensive scripts, with the real room sizes and pool size.      *)
(* trace holds the requests of the current pass of the loop: the create    *)
(* request with the invited ids, then one entry per seed message call with *)
(* the message numbers k it carries. batch.i is the seed loop's variable.  *)
(***************************************************************************)
\* const batchSize = 5 of the direct-group seed loop
batchSize == 5

\* j runs over 1..roomSize (direct-group) or 1..10, in pass i (from 0)
memberLoopSize(s, i) == IF s = "directGroup" THEN roomSizes[i + 1] ELSE 10

memberIdsWithOwner(s, i) ==
    [j \in 1..memberLoopSize(s, i) |-> ((i * 10 + j) % usersLength(s)) + 1]

\* memberIds after the loop over j
memberIds(s, i) ==
    SelectSeq([j \in 1..memberLoopSize(s, i) |->
                  ((i * 10 + j) % usersLength(s)) + 1],
              LAMBDA userId : userId # ownerUserId)

\* the slice of memberIds passed to createGroupChat
invited(s, i) ==
    LET ids == memberIds(s, i)
        n == IF s = "directGroup" THEN roomSizes[i + 1] ELSE 5
    IN  SubSeq(ids, 1, IF n < Len(ids) THEN n ELSE Len(ids))

seedCallOverlapping(s, n, k) ==
    IF s = "directGroup"
    THEN [x \in 1..((IF k + batchSize < n THEN k + batchSize ELSE n) - k + 1)
             |-> k + x - 1]
    ELSE <<k>>

\* the message numbers of one seed call: the http.batch of the pass that
\* starts at k (direct-group, n = initialMessages), or one sendMessage
seedCall(s, n, k) ==
    IF s = "directGroup"
    THEN [x \in 1..((IF k + batchSize - 1 < n THEN k + batchSize - 1 ELSE n)
                    - k + 1) |-> k + x - 1]
    ELSE <<k>>

InitSpecRooms ==
    /\ script \in {"directGroup", "comprehensive", "comprehensiveAI"}
    /\ profile = DefaultProfile(script)
    /\ phase = "rooms"
    /\ stageIdx = 1
    /\ activeVUs = 0
    /\ userType = -1
    /\ ran = << >>
    /\ InitCalls
    /\ tokenCache = {}
    /\ ownerToken \in BOOLEAN
    /\ roomIdx = 0
    /\ sharedRooms = {}
    /\ setupData = NoData
    /\ sent = NoRequests
    /\ vuCache = [v \in 1..MaxVU |-> {}]
    /\ nIters = 0
    /\ lastIter = NoIter
    /\ loggedIn = {}
    /\ taggedRooms = 0
    /\ teardownResult = "pending"
    /\ dupInRoom = FALSE
    /\ InitTrace

\* pass roomIdx of the room loop up to if (room): the room made by pass i
\* is room i + 1
CreateSharedRoom ==
    /\ phase = "rooms"
    /\ ownerToken
    /\ roomIdx < SetupRoomCount(script)
    /\ \E created \in BOOLEAN :
          /\ trace' = <<[req |-> "createGroupChat",
                        ids |-> invited(script, roomIdx)]>>
          /\ sent' = [sent EXCEPT !.createRoom = @ + 1]
          /\ sharedRooms' = IF created THEN sharedRooms \cup {roomIdx + 1}
                            ELSE sharedRooms
          /\ phase' = IF created THEN "seeding" ELSE "rooms"
          /\ roomIdx' = IF created THEN roomIdx ELSE roomIdx + 1
          /\ batch' = [batch EXCEPT !.i = 1]
    /\ UNCHANGED <<script, profile, driverVars, selVars, callVars, input,
                   tokenCache, ownerToken, setupData, vuCache, nIters,
                   lastIter, loggedIn, taggedRooms, teardownResult,
                   dupInRoom>>

\* one pass of the seed message loop
SeedMessages ==
    /\ phase = "seeding"
    /\ batch.i <= InitialMessages(script, roomIdx + 1)
    /\ LET ks == seedCall(script, InitialMessages(script, roomIdx + 1),
                          batch.i)
       IN  /\ trace' = Append(trace, [req |-> "sendMessage", ids |-> ks])
           /\ sent' = [sent EXCEPT !.seedMessage = @ + Len(ks)]
    /\ batch' = [batch EXCEPT
                    !.i = @ + (IF script = "directGroup" THEN batchSize ELSE 1)]
    /\ UNCHANGED <<script, profile, phase, driverVars, selVars, callVars,
                   input, tokenCache, ownerToken, roomIdx, sharedRooms,
                   setupData, vuCache, nIters, lastIter, loggedIn,
                   taggedRooms, teardownResult, dupInRoom>>

\* the seed loop's condition fails: sleep(0.5) and the next pass
SeedDone ==
    /\ phase = "seeding"
    /\ ~(batch.i <= InitialMessages(script, roomIdx + 1))
    /\ phase' = "rooms"
    /\ roomIdx' = roomIdx + 1
    /\ UNCHANGED <<script, profile, driverVars, selVars, callVars, traceVars,
                   tokenCache, ownerToken, sharedRooms, setupData, sent,
                   vuCache, nIters, lastIter, loggedIn, taggedRooms,
                   teardownResult, dupInRoom>>

\* the room loop is over, or was not entered for want of an owner token
RoomsDone ==
    /\ phase = "rooms"
    /\ ~ownerToken \/ ~(roomIdx < SetupRoomCount(script))
    /\ phase' = "rooms_done"
    /\ UNCHANGED <<script, profile, notRun, runVars>>

NextRooms == CreateSharedRoom \/ SeedMessages \/ SeedDone \/ RoomsDone

SpecRooms == InitSpecRooms /\ [][NextRooms]_vars

(***************************************************************************)
(* SpecCache: the token cache of the direct-group script with the tokens   *)
(* themselves. Here tokenCache and vuCache[v] are sets of entries          *)
(* [key, token]; a token names the user whose credentials the login        *)
(* request carried and the number of that request in the run. setup fills  *)
(* the cache, every virtual user gets its own copy of what setup returned. *)
(***************************************************************************)
\* what login() returns: body.data of a 200 answer (a token, or an empty or
\* missing value), null otherwise
LoginReturn(answer, u, n) ==
    IF answer = "fail" THEN [user |-> 0, login |-> 0, empty |-> TRUE]
    ELSE [user |-> u, login |-> n, empty |-> (answer # "token")]

\* tokenCache[k]; undefined reads as an empty value
cacheGet(c, k) ==
    IF \E e \in c : e.key = k THEN (CHOOSE e \in c : e.key = k).token
    ELSE [user |-> 0, login |-> 0, empty |-> TRUE]

\* tokenCache[k] = t
cachePut(c, k, t) == {e \in c : e.key # k} \cup {[key |-> k, token |-> t]}

cacheStoreAlways(c, k, t) == cachePut(c, k, t)

\* if (token) tokenCache[k] = token
cacheStore(c, k, t) == IF t.empty THEN c ELSE cachePut(c, k, t)

InitSpecCache ==
    /\ script = "directGroup"
    /\ profile = DefaultProfile(script)
    /\ phase = "cache_fill"
    /\ stageIdx = 1
    /\ activeVUs = 0
    /\ userType = -1
    /\ ran = << >>
    /\ InitCalls
    /\ InitRun
    /\ InitTrace

\* setup handles the answer to the login request of the next user of the
\* pool (one step of responses.forEach)
CacheFill ==
    /\ phase = "cache_fill"
    /\ batch.i < NumUsers
    /\ \E answer \in {"token", "empty", "fail"} :
          LET u == batch.i + 1
              t == LoginReturn(answer, u, sent.login + 1)
          IN  /\ tokenCache' = cacheStore(tokenCache, u, t)
              /\ consoleErrors' = consoleErrors + (IF t.empty THEN 1 ELSE 0)
    /\ sent' = [sent EXCEPT !.login = @ + 1]
    /\ batch' = [batch EXCEPT !.i = @ + 1]
    /\ UNCHANGED <<script, profile, phase, driverVars, selVars, input, trace,
                   counter, rate, lastCall, nCalls, ownerToken, roomIdx,
                   sharedRooms, setupData, vuCache, nIters, lastIter,
                   loggedIn, taggedRooms, teardownResult, dupInRoom>>

\* after the batch login: the owner retry if (!ownerToken), then setup
\* returns and every virtual user receives a copy of the cache
CacheOwnerRetry ==
    /\ phase = "cache_fill"
    /\ ~(batch.i < NumUsers)
    /\ \E answer \in {"token", "empty", "fail"} :
          LET retry == cacheGet(tokenCache, ownerUserId).empty
              t == LoginReturn(answer, ownerUserId, sent.login + 1)
          IN  /\ ~retry => answer = "fail"
              /\ tokenCache' = IF retry
                               THEN cacheStore(tokenCache, ownerUserId, t)
                               ELSE tokenCache
              /\ sent' = [sent EXCEPT !.login = @ + (IF retry THEN 1 ELSE 0)]
              /\ ownerToken' = ~cacheGet(tokenCache', ownerUserId).empty
              /\ vuCache' = [v \in 1..MaxVU |-> tokenCache']
    /\ phase' = "load"
    /\ UNCHANGED <<script, profile, driverVars, selVars, callVars, traceVars,
                   roomIdx, sharedRooms, setupData, nIters, lastIter,
                   loggedIn, taggedRooms, teardownResult, dupInRoom>>

\* the top of the default function run by virtual user v: the token the
\* iteration goes on with is kept in lastIter
CacheDefault(v) ==
    /\ phase = "load"
    /\ nIters < MaxIters
    /\ \E answer \in {"token", "empty", "fail"} :
          LET u == runUser(v)
              cached == cacheGet(vuCache[v], u)
              t == LoginReturn(answer, u, sent.login + 1)
          IN  /\ ~cached.empty => answer = "fail"
              /\ vuCache' = IF cached.empty
                            THEN [vuCache EXCEPT ![v] = cacheStore(@, u, t)]
                            ELSE vuCache
              /\ sent' = [sent EXCEPT
                            !.login = @ + (IF cached.empty THEN 1 ELSE 0)]
              /\ lastIter' = [vu |-> v, user |-> u,
                              loginSent |-> cached.empty,
                              token |-> IF cached.empty THEN t ELSE cached]
    /\ nIters' = nIters + 1
    /\ UNCHANGED <<script, profile, phase, driverVars, selVars, callVars,
                   traceVars, tokenCache, ownerToken, roomIdx, sharedRooms,
                   setupData, loggedIn, taggedRooms, teardownResult,
                   dupInRoom>>

NextCache == CacheFill \/ CacheOwnerRetry \/ \E v \in 1..MaxVU : CacheDefault(v)

SpecCache == InitSpecCache /\ [][NextCache]_vars

(***************************************************************************)
(* SpecGauges: the Gauge.add calls of one call of a scenario function, in  *)
(* the order made. The outcomes of the branches on the way (login, room    *)
(* found or made, translation and feedback draws) are drawn in Init.       *)
(***************************************************************************)
\* the scenario functions of a script
ScenarioFns(s) ==
    {ScenarioArms(s)[k].scenario : k \in 1..Len(ScenarioArms(s))}
       \cup {ElseScenario(s)}

\* the gauges a scenario adds 1 to at its start, in the order written
outerGauges(s, f) ==
    CASE s = "aiStress" -> <<"active_ai_users">>
      [] s = "comprehensiveAI" /\ f = "translationFocusedScenario" ->
           <<"active_users", "active_translation_users">>
      [] s = "comprehensiveAI" /\ f = "feedbackFocusedScenario" ->
           <<"active_users", "active_feedback_users">>
      [] s = "comprehensiveAI" /\ f = "aiChatFocusedScenario" ->
           <<"active_users", "active_ai_users">>
      [] OTHER -> <<"active_users">>

\* the scenarios with a return in the middle, taken when no room was found
\* or made
roomReturn(s, f) ==
    CASE s = "directGroup" ->
           f \in {"groupChatCasualScenario", "groupChatActiveScenario",
                  "roomManagerScenario"}
      [] s = "aiStress" ->
           f \in {"rolePlayScenario", "tutorPersonalScenario",
                  "tutorSimilarScenario"}
      [] s = "comprehensive" -> f \in {"activeChatScenario", "aiChatScenario"}
      [] OTHER -> FALSE

roomReturnClosesNothing(s, f) == << >>

\* the gauge calls written in front of the return in the middle
roomReturnCloses(s, f) == <<<<outerGauges(s, f)[1], -1>>>>

\* the Gauge.add calls of scenario f on the path p
gaugeCalls(s, f, p) ==
    LET outer == outerGauges(s, f)
        opens == [k \in 1..Len(outer) |-> <<outer[k], 1>>]
        closes == [k \in 1..Len(outer) |-> <<outer[Len(outer) + 1 - k], -1>>]
        casual == s = "comprehensiveAI" /\ f = "casualUserScenario" /\ p.room
        inner ==
            (IF casual /\ p.translation
             THEN <<<<"active_translation_users", 1>>,
                    <<"active_translation_users", -1>>>> ELSE << >>)
            \o (IF casual /\ p.feedback
                THEN <<<<"active_feedback_users", 1>>,
                       <<"active_feedback_users", -1>>>> ELSE << >>)
    IN  IF s # "directGroup" /\ ~p.token THEN << >>
        ELSE IF roomReturn(s, f) /\ ~p.room
        THEN opens \o roomReturnCloses(s, f)
        ELSE opens \o inner \o closes

InitSpecGauges ==
    /\ script \in DrawScripts
    /\ profile = DefaultProfile(script)
    /\ phase = "load"
    /\ stageIdx = 1
    /\ activeVUs = 1
    /\ userType = -1
    /\ ran = << >>
    /\ InitCalls
    /\ InitRun
    /\ input \in [kind : {"gauges"}, f : ScenarioFns(script),
                  token : BOOLEAN, room : BOOLEAN, translation : BOOLEAN,
                  feedback : BOOLEAN]
    \* the direct-group default function calls a scenario only with a token
    /\ script = "directGroup" => input.token
    /\ trace = << >>
    /\ batch = NoBatch

\* one call of the scenario function
ScenarioGauges ==
    /\ phase = "load"
    /\ input.kind = "gauges"
    /\ trace' = gaugeCalls(script, input.f, input)
    /\ phase' = "iterated"
    /\ UNCHANGED <<script, profile, input, batch, notTrace>>

SpecGauges == InitSpecGauges /\ [][ScenarioGauges]_vars

(***************************************************************************)
(* SpecInvite: the member ids of roomManagerScenario in the direct-group   *)
(* and the two comprehensive scripts. The users randomItem lands on are    *)
(* drawn in Init, from a scaled pool.                                      *)
(***************************************************************************)
\* bound: size of the users pool in SpecInvite (100 in the scripts)
NumInviteUsers == 3

\* bound: the largest roomSize drawn in SpecInvite (randomIntBetween(3, 10)
\* in the direct-group and comprehensive-with-ai scripts)
MaxRoomSize == 3

\* passes of the loop that fills inviteMembers
RoomSizes(s) == IF s = "comprehensive" THEN {3} ELSE 3..MaxRoomSize

InviteInputs(s) ==
    UNION {[kind : {"invite"},
            user : 1..NumInviteUsers,               \* the manager
            picks : [1..n -> 1..NumInviteUsers],    \* randomItem(users).id
            created : BOOLEAN,         \* createGroupChat returns a room
            inviteDraw : BOOLEAN,      \* Math.random() < 0.3 (0.5)
            newMember : 1..NumInviteUsers] : n \in RoomSizes(s)}

\* the scripts that test !inviteMembers.includes(randomUser.id) in the loop
SkipsInvited(s) == s # "comprehensive"

\* inviteMembers after the loop
inviteMembers(s, user, picks) ==
    LET F[k \in 0..Len(picks)] ==
            IF k = 0 THEN << >>
            ELSE IF picks[k] # user
                    /\ ~(SkipsInvited(s)
                         /\ \E x \in 1..Len(F[k - 1]) : F[k - 1][x] = picks[k])
                 THEN Append(F[k - 1], picks[k])
                 ELSE F[k - 1]
    IN  F[Len(picks)]

\* the createGroupChat request and the inviteMember request of the scenario
managerInvites(s, in) ==
    LET ids == inviteMembers(s, in.user, in.picks)
        extra == /\ s # "comprehensiveAI"
                 /\ in.created
                 /\ in.inviteDraw
                 /\ in.newMember # in.user
                 /\ ~\E x \in 1..Len(ids) : ids[x] = in.newMember
    IN  <<[req |-> "createGroupChat", ids |-> ids]>>
           \o (IF extra
               THEN <<[req |-> "inviteMember", ids |-> <<in.newMember>>]>>
               ELSE << >>)

InitSpecInvite ==
    /\ script \in {"directGroup", "comprehensive", "comprehensiveAI"}
    /\ profile = DefaultProfile(script)
    /\ phase = "load"
    /\ stageIdx = 1
    /\ activeVUs = 1
    /\ userType = -1
    /\ ran = << >>
    /\ InitCalls
    /\ InitRun
    /\ input \in InviteInputs(script)
    /\ trace = << >>
    /\ batch = NoBatch

\* one call of roomManagerScenario by a user with a token
ManagerInvite ==
    /\ phase = "load"
    /\ input.kind = "invite"
    /\ trace' = managerInvites(script, input)
    /\ phase' = "iterated"
    /\ UNCHANGED <<script, profile, input, batch, notTrace>>

SpecInvite == InitSpecInvite /\ [][ManagerInvite]_vars

(***************************************************************************)
(* SpecCasualUser: one call of casualUserScenario of the comprehensive     *)
(* script as the list of requests it sends. A room is a pair of its type   *)
(* and its id. What the call meets is drawn in Init.                       *)
(***************************************************************************)
allRoomsRefetched(in) ==
    LET first == ({"DIRECT"} \X in.directRooms) \cup ({"GROUP"} \X in.groupRooms)
    IN  IF first = {} /\ in.sharedRooms # {} /\ in.joinOk
        THEN {<<"GROUP", randomItem(in.sharedRooms, in.sharedPick)>>}
        ELSE first

\* const allRooms = [...directRooms, ...groupRooms]
allRooms(in) ==
    ({"DIRECT"} \X in.directRooms) \cup ({"GROUP"} \X in.groupRooms)

\* casualUserScenario(user, sharedRooms)
casualUserScenario(in) ==
    LET rooms == allRooms(in)
        read == randomItem(rooms, in.readPick)
        send == randomItem(rooms, in.sendPick)
    IN  IF ~in.loginOk THEN <<[req |-> "login", type |-> "", room |-> 0]>>
        ELSE <<[req |-> "login", type |-> "", room |-> 0],
               [req |-> "getDirectRoomList", type |-> "DIRECT", room |-> 0],
               [req |-> "getGroupRoomList", type |-> "GROUP", room |-> 0]>>
             \o (IF rooms = {} /\ in.sharedRooms # {}
                 THEN <<[req |-> "joinGroupRoom", type |-> "GROUP",
                         room |-> randomItem(in.sharedRooms, in.sharedPick)]>>
                 ELSE << >>)
             \o (IF in.readDraw /\ rooms # {}
                 THEN <<[req |-> "getMessages", type |-> read[1],
                         room |-> read[2]]>>
                 ELSE << >>)
             \o (IF in.sendDraw /\ rooms # {}
                 THEN <<[req |-> "sendMessageViaREST", type |-> send[1],
                         room |-> send[2]]>>
                 ELSE << >>)

InitSpecCasualUser ==
    /\ script = "comprehensive"
    /\ profile = DefaultProfile(script)
    /\ phase = "load"
    /\ stageIdx = 1
    /\ activeVUs = 1
    /\ userType = -1
    /\ ran = << >>
    /\ InitCalls
    /\ InitRun
    /\ input \in [kind : {"casualUser"},
                  loginOk : BOOLEAN,              \* login returns a token
                  directRooms : SUBSET CasualRooms, \* getDirectRoomList
                  groupRooms : SUBSET CasualRooms,  \* getGroupRoomList
                  sharedRooms : SUBSET CasualRooms, \* data.sharedRooms
                  sharedPick : CasualRooms,
                  joinOk : BOOLEAN,               \* the join is answered 200
                  readDraw : BOOLEAN,             \* Math.random() < 0.7
                  readPick : {"DIRECT", "GROUP"} \X CasualRooms,
                  sendDraw : BOOLEAN,             \* Math.random() < 0.3
                  sendPick : {"DIRECT", "GROUP"} \X CasualRooms]
    /\ trace = << >>
    /\ batch = NoBatch

\* one iteration of the comprehensive script that draws below 60
CasualUser ==
    /\ phase = "load"
    /\ input.kind = "casualUser"
    /\ trace' = casualUserScenario(input)
    /\ phase' = "iterated"
    /\ UNCHANGED <<script, profile, input, batch, notTrace>>

SpecCasualUser == InitSpecCasualUser /\ [][CasualUser]_vars

(***************************************************************************)
(* Claims.                                                                 *)
(***************************************************************************)

\* C1: the last stage of every LOAD_PROFILES entry of every script, and of
\* the inline stage list of the message read test, has target 0, and a run
\* that has followed its stage list to the end has no active virtual user.
C1_FinalTargetZero ==
    /\ \A s \in Scripts :
         \A p \in ProfileNames(s) \cup {DefaultProfile(s)} :
            StagesOf(s, p) # << >> =>
               StagesOf(s, p)[Len(StagesOf(s, p))].target = 0
    /\ phase = "ended" => activeVUs = 0

C1_Witness ==
    phase = "ended" /\ script = "concurrency" /\ profile = "spike"

\* C2: in every default function each draw 0..99 calls exactly one scenario
\* function, once.
C2_ExactlyOneScenario ==
    userType # -1 =>
        /\ userType \in 0..99
        /\ Len(ran) = 1
        /\ \A d \in 0..99 : Len(ScenarioCalls(script, d)) = 1

C2_Witness ==
    script = "comprehensiveAI" /\ userType = 95 /\ ran = <<"roomManagerScenario">>

\* no two active virtual users drive the same test user
Exclusive ==
    \A v \in 1..activeVUs : \A w \in 1..(v - 1) :
        userIndex(script, v) # userIndex(script, w)

\* C6 (as stated): at any moment two active virtual users never drive the
\* same test user, for every stage target the scripts configure.
C6_Original == Exclusive

\* C6 (amended): the active virtual users drive pairwise different test
\* users exactly as long as at most users.length of them are active.
C6_ExclusiveUpToPoolSize ==
    Exclusive <=> activeVUs <= usersLength(script)

C6_Witness ==
    /\ script = "directGroup" /\ profile = "full"
    /\ activeVUs = 101
    /\ userIndex(script, 101) = userIndex(script, 1)

\* C3 (as stated): every joinGroupRoom answered 200 or 400 returns true,
\* increments rooms_joined where the script has it, and logs no failure.
C3_Original ==
    (lastCall.fn = "joinGroupRoom" /\ lastCall.resp.status \in {200, 400}) =>
        /\ lastCall.out.ret = TRUE
        /\ lastCall.out.errors = 0
        /\ lastCall.out.checkOk # FALSE
        /\ script = "directGroup" => "rooms_joined" \in lastCall.out.inc

SendFns == {"sendAIMessage", "sendConcurrentMessage"}

\* counters of failed sends, and the true samples of the error rate
FailureTally(c, rt) ==
    c["ai_response_failed"] + c["messages_failed_concurrent"]
        + rt["ai_error_rate"].t

FailedCount(c) == c["ai_response_failed"] + c["messages_failed_concurrent"]

\* the timeout counter and the true samples of the timeout rates
TimeoutTally(c, rt) ==
    c["ai_response_timeout"] + rt["ai_timeout_rate"].t
        + rt["concurrency_timeout_rate"].t

\* C4 (as stated): one send never increments both the timeout tally and
\* the failure tally.
C4_Original ==
    [][~(/\ TimeoutTally(counter', rate') > TimeoutTally(counter, rate)
         /\ FailureTally(counter', rate') > FailureTally(counter, rate))]_vars

\* C4 (amended): a send that times out increments the timeout tally and the
\* failed counter, never the error rate; a failure without timeout
\* increments the failed counter and never the timeout tally; a successful
\* send increments none of them.
C4_TimeoutIsAFailure ==
    [][lastCall'.fn \in SendFns =>
        LET o == lastCall'.out
            r == lastCall'.resp
            dTimeout == TimeoutTally(counter', rate') - TimeoutTally(counter, rate)
            dFailed  == FailedCount(counter') - FailedCount(counter)
            dError   == rate'["ai_error_rate"].t - rate["ai_error_rate"].t
        IN  /\ (~o.ret /\ r.timed_out) =>
                  dTimeout >= 1 /\ dFailed = 1 /\ dError = 0
            /\ (~o.ret /\ ~r.timed_out) =>
                  dTimeout = 0 /\ dFailed = 1
            /\ o.ret => dTimeout = 0 /\ dFailed = 0 /\ dError = 0]_vars

C4_Witness ==
    /\ lastCall.fn = "sendAIMessage" /\ lastCall.resp.timed_out
    /\ counter["ai_response_timeout"] = 1
    /\ counter["ai_response_failed"] = 1

\* an iteration of the default function has just run
IterationRan == nIters' = nIters + 1

C7_Original ==
    (script \in ProfileScripts /\ ~ProfileKnown(script, profile)) =>
        sent.createRoom = 0

\* the scripts whose setup or scenarios create "[LOAD_TEST] ..." rooms
TaggedFixtureScripts == {"directGroup", "comprehensiveAI"}

\* C8 (as stated): after a run whose setup obtained the owner token,
\* teardown has sent one cleanup request and reported its outcome.
C8_Original ==
    (phase = "done" /\ script \in TaggedFixtureScripts /\ ownerToken) =>
        /\ sent.cleanup = 1
        /\ teardownResult \in {"cleaned", "cleanupFailed"}

\* C9 (as stated, for the direct-group run whose cleanup the backend did
\* not refuse): after teardown no load-test-tagged room is left.
C9_Original ==
    (phase = "done" /\ script = "directGroup"
        /\ teardownResult # "cleanupFailed") => taggedRooms = 0

\* setup has returned
SetupOver == phase \in {"load", "teardown", "done"}

LoginFailed(it) == it.vu # 0 /\ it.loginSent /\ ~it.loginOk

C11_LoginFailureSkipsIteration ==
    [][IterationRan =>
         /\ LoginFailed(lastIter') =>
               /\ ~lastIter'.bodyRan
               /\ ~lastIter'.createSent
               /\ ~lastIter'.raised
               /\ taggedRooms' = taggedRooms
               /\ dupInRoom' = dupInRoom
               /\ vuCache' = vuCache
               /\ NeedsLogin(script, vuCache'[lastIter'.vu], lastIter'.user)
         /\ (LoginFailed(lastIter) /\ lastIter'.vu = lastIter.vu) =>
               lastIter'.loginSent]_vars

C11_Witness ==
    /\ phase = "load"
    /\ nIters = 2
    /\ LoginFailed(lastIter)
    /\ lastIter.scenario # "none"
    /\ ~lastIter.bodyRan

\* C12: a direct-group iteration with no cached token whose login succeeds
\* and that runs groupChatCasualScenario with an empty first room list, a
\* shared room fixture and a room list that is not empty after the join
\* sends, in this order: login, (the token is cached), group-room list, join
\* of one shared room, group-room list, then a message read with page size
\* 30 if the read draw is taken, then a send if and only if the send draw is
\* taken.
CasualCase(in) ==
    /\ in.kind = "casual"
    /\ ~in.cached
    /\ in.loginOk
    /\ in.list1 = {}
    /\ in.shared # {}

CasualPrefix(t) ==
    /\ Len(t) >= 5
    /\ t[1].req = "login"
    /\ t[2].req = "cacheToken"
    /\ t[3].req = "getGroupRoomList"
    /\ t[4].req = "joinGroupRoom" /\ t[4].room \in input.shared
    /\ t[5].req = "getGroupRoomList"

CasualTail(t, size) ==
    /\ Len(t) = 5 + (IF input.readDraw THEN 1 ELSE 0)
                  + (IF input.sendDraw THEN 1 ELSE 0)
    /\ input.readDraw =>
          /\ t[6].req = "getMessages"
          /\ t[6].size = size
          /\ t[6].room \in input.list2
    /\ input.sendDraw => t[Len(t)].req = "sendMessage"
    /\ ~input.sendDraw => \A i \in 1..Len(t) : t[i].req # "sendMessage"

C12_Original ==
    (phase = "iterated" /\ CasualCase(input) /\ input.list2 # {}) =>
        CasualPrefix(trace) /\ CasualTail(trace, 25)

C12_CasualTraceReads30 ==
    (phase = "iterated" /\ CasualCase(input) /\ input.list2 # {}) =>
        CasualPrefix(trace) /\ CasualTail(trace, 30)

C12_Witness ==
    /\ phase = "iterated"
    /\ CasualCase(input)
    /\ input.list2 # {}
    /\ input.readDraw
    /\ ~input.sendDraw
    /\ Len(trace) = 6
    /\ trace[6].req = "getMessages"

\* C13: in every script whose scenarios carry a percentage in their doc
\* comment, the number of draws in 0..99 that select a scenario equals that
\* percentage.
DocScripts == {"directGroup", "comprehensive", "comprehensiveAI"}

DrawCount(s, f) == Cardinality({d \in 0..99 : ScenarioCalls(s, d) = <<f>>})

C13_Original ==
    script \in DocScripts =>
       \A f \in DOMAIN DocPercent(script) :
          DrawCount(script, f) = DocPercent(script)[f]

\* C14: with TEST_DURATION=full the direct-group script has a stage with
\* target 800, and options.maxVUs allows 800 virtual users.
C14_Original ==
    (script = "directGroup" /\ profile = "full") =>
        /\ \E i \in 1..Len(StagesOf(script, profile)) :
              StagesOf(script, profile)[i].target = 800
        /\ maxVUs >= 800

\* C15: some execution of the direct-group roomManagerScenario, for some
\* random draws and backend answers, sends a kick-member request.
KickSent(t) == \E i \in 1..Len(t) : t[i].req = "kickMember"

C15_Original ==
    script = "directGroup" =>
       \E in \in ManagerInputs : KickSent(roomManagerScenario(in))

\* C16: in the modes multi and spike of the concurrency test (as in single),
\* a run during which the backend gave two messages of a target room the
\* same sequence number ends with sequence_duplicates greater than 0.
C16_Original ==
    (/\ script = "concurrency"
     /\ profile \in {"multi", "spike"}
     /\ phase = "done"
     /\ dupInRoom) => counter["sequence_duplicates"] > 0

\* C17: in the chat scenarios of the ai-stress script a failed sendAIMessage
\* is retried: an iteration in which a send failed makes more send attempts
\* than the number of conversations drawn.
SendAttempts(t) == Cardinality({i \in 1..Len(t) : t[i].req = "sendAIMessage"})

C17_Original ==
    (/\ phase = "iterated"
     /\ input.kind = "aiChat"
     /\ input.loginOk
     /\ input.hasRoom \/ input.createOk
     /\ input.failed # {}) => SendAttempts(trace) > input.conversations

\* C18: a call of verifyMessageSequences on a 200 response whose page holds
\* the sequence list S returns false and adds Len(S) minus the number of
\* distinct values of S to sequence_duplicates when S has a repeated value,
\* and returns true and adds nothing when the values of S are distinct,
\* gaps or not; on a non-200 response or a body that is not a message page
\* it returns false and adds nothing. No other counter changes.
VerifyCalled ==
    nCalls' = nCalls + 1 /\ lastCall'.fn = "verifyMessageSequences"

Repeats(S) == Len(S) - Cardinality(Range(S))

C18_VerifyCountsRepeats ==
    [][VerifyCalled =>
         LET r == lastCall'.resp
             page == r.status = 200 /\ r.body = "page"
         IN  /\ (page /\ Repeats(r.seqs) > 0) =>
                   /\ lastCall'.out.ret = FALSE
                   /\ counter' = [counter EXCEPT !["sequence_duplicates"] =
                                                   @ + Repeats(r.seqs)]
             /\ (page /\ Repeats(r.seqs) = 0) =>
                   /\ lastCall'.out.ret = TRUE
                   /\ counter' = counter
             /\ ~page =>
                   /\ lastCall'.out.ret = FALSE
                   /\ counter' = counter]_vars

C18_Witness ==
    /\ lastCall.fn = "verifyMessageSequences"
    /\ lastCall.resp.status = 200
    /\ lastCall.resp.seqs = <<4, 4, 4>>
    /\ lastCall.out.ret = FALSE
    /\ counter["sequence_duplicates"] = 2
    /\ nCalls = 1

\* C19: in the concurrency test, setup returns null exactly when the owner
\* login fails or, in the modes single and spike, the target room is not
\* created; then no iteration sends a request and teardown returns at once,
\* without a login and without sequence verification. With a mode that is
\* none of single, multi and spike, setup returns nothing: it throws in its
\* banner before any request, and neither iterations nor teardown run.
SetupReturned == phase \in {"load", "teardown", "done"}

C19_Original ==
    (script = "concurrency" /\ ~ProfileKnown(script, profile)
        /\ phase # "init") => setupData.isNull

C19_SetupFailureIdlesRun ==
    script = "concurrency" =>
       /\ setupData.isNull =>
             /\ SetupReturned
             /\ ProfileKnown(script, profile)
             /\ ~ownerToken \/ (SingleTarget(script, profile) /\ sharedRooms = {})
             /\ lastIter.vu # 0 =>
                   /\ ~lastIter.loginSent
                   /\ ~lastIter.bodyRan
                   /\ ~lastIter.raised
                   /\ lastIter.scenario = "none"
             /\ ~dupInRoom
             /\ sent.verify = 0
             /\ teardownResult \in {"pending", "returned"}
             /\ counter["sequence_duplicates"] = 0
       /\ (SetupReturned /\ ~setupData.isNull) =>
             /\ ownerToken
             /\ SingleTarget(script, profile) => sharedRooms # {}
       /\ ~ProfileKnown(script, profile) =>
             /\ phase \in {"init", "aborted"}
             /\ sent = NoRequests
             /\ nIters = 0
             /\ teardownResult = "pending"

C19_Witness ==
    /\ script = "concurrency"
    /\ profile = "single"
    /\ ownerToken
    /\ setupData.isNull
    /\ nIters > 0
    /\ phase = "done"
    /\ teardownResult = "returned"

\* C20: when the batch login of the direct-group setup is over, every user
\* of the pool was sent exactly one login request, in pool order, in batches
\* of at most loginBatchSize requests; loginSuccessCount + loginFailCount is
\* the size of the pool; and tokenCache has an entry for user u exactly if
\* the answer to u's request was a 200 with a non-empty token. For the 100
\* users and the batch size 20 of the script the slices are five batches of
\* 20 that cover the users 1..100 once.
Flatten(batches) ==
    LET F[k \in 0..Len(batches)] ==
            IF k = 0 THEN << >> ELSE F[k - 1] \o batches[k]
    IN  F[Len(batches)]

LoopIndexes(n, b) == {i \in 0..(n - 1) : i % b = 0}

C20_BatchLoginOncePerUser ==
    /\ \A k \in 1..Len(trace) : Len(trace[k]) <= loginBatchSize
    /\ phase = "batch_done" =>
          /\ Flatten(trace) = [u \in 1..NumBatchUsers |-> u]
          /\ sent.login = NumBatchUsers
          /\ batch.loginSuccessCount + batch.loginFailCount = NumBatchUsers
          /\ \A u \in 1..NumBatchUsers :
                u \in tokenCache <=> input.resp[u] = "token"
          /\ LoopIndexes(100, 20) = {0, 20, 40, 60, 80}
          /\ \A i \in LoopIndexes(100, 20) :
                batchUsers(100, 20, i) = [k \in 1..20 |-> i + k]

C20_Witness ==
    /\ phase = "batch_done"
    /\ Len(trace) > 1
    /\ batch.loginSuccessCount > 0
    /\ batch.loginFailCount > 1
    /\ \E u \in 1..NumBatchUsers : input.resp[u] = "empty"

\* C21: in the direct-group setup every shared room that was created and has
\* the configured size s gets exactly min(2*s, 20) seed message requests,
\* numbered 1, 2, ..., min(2*s, 20) in this order without a gap or a repeat,
\* in batch calls of at most 5 requests; a room whose creation failed gets
\* none; so the seed requests of the whole setup are the sum over the
\* created rooms.
PassOfTrace == IF phase = "seeding" THEN roomIdx ELSE roomIdx - 1

PassOver == phase \in {"rooms", "rooms_done"}

SeedCalls == [x \in 1..(Len(trace) - 1) |-> trace[x + 1].ids]

SeedWanted(room) ==
    IF 2 * roomSizes[room] < 20 THEN 2 * roomSizes[room] ELSE 20

SeedTotal(rooms) ==
    LET T[k \in 0..Len(roomSizes)] ==
            IF k = 0 THEN 0
            ELSE T[k - 1] + (IF k \in rooms THEN SeedWanted(k) ELSE 0)
    IN  T[Len(roomSizes)]

C21_SeedMessagesPerRoom ==
    (script = "directGroup" /\ trace # << >>) =>
       LET room == PassOfTrace + 1
           ks == Flatten(SeedCalls)
       IN  /\ \A x \in 1..Len(SeedCalls) :
                 Len(SeedCalls[x]) >= 1 /\ Len(SeedCalls[x]) <= 5
           /\ ks = [k \in 1..Len(ks) |-> k]
           /\ Len(ks) <= SeedWanted(room)
           /\ room \notin sharedRooms => ks = << >>
           /\ (PassOver /\ room \in sharedRooms) => Len(ks) = SeedWanted(room)
           /\ PassOver => sent.seedMessage = SeedTotal(sharedRooms)

C21_Witness ==
    /\ script = "directGroup"
    /\ phase = "rooms_done"
    /\ 1 \notin sharedRooms
    /\ 2 \in sharedRooms
    /\ 15 \in sharedRooms
    /\ Len(trace) = 5
    /\ sent.seedMessage = 30

\* C22: for every shared room setup tries to create (15 rooms with the sizes
\* 5..100 in the direct-group script, 10 rooms in the two comprehensive
\* scripts) the member id list of the create request has only ids of 1..100,
\* not the owner's id 1, no id twice, and at most the configured room size
\* (direct-group) or at most 5 (comprehensive scripts) entries.
CreateIds == trace[1].ids

SizeLimit ==
    IF script = "directGroup" THEN roomSizes[PassOfTrace + 1] ELSE 5

C22_SharedRoomMemberIds ==
    /\ trace # << >> =>
          /\ trace[1].req = "createGroupChat"
          /\ \A x \in 1..Len(CreateIds) :
                CreateIds[x] \in 1..100 /\ CreateIds[x] # 1
          /\ Cardinality({CreateIds[x] : x \in 1..Len(CreateIds)})
                = Len(CreateIds)
          /\ Len(CreateIds) <= SizeLimit
    /\ \A r \in sharedRooms :
          r \in 1..(IF script = "directGroup" THEN 15 ELSE 10)
    /\ (script = "directGroup" /\ trace # << >>) => SizeLimit \in 5..100
    /\ (phase = "rooms_done" /\ ownerToken) =>
          sent.createRoom = (IF script = "directGroup" THEN 15 ELSE 10)

\* the pass of the direct-group loop whose j loop meets the owner's id
\* (i = 9, j = 10), and the last pass of a comprehensive script
C22_Witness ==
    \/ /\ script = "directGroup"
       /\ phase = "seeding"
       /\ roomIdx = 9
       /\ Len(CreateIds) = 49
    \/ /\ script = "comprehensive"
       /\ phase = "rooms_done"
       /\ ownerToken
       /\ CreateIds = <<92, 93, 94, 95, 96>>

\* C23: a run of the direct-group script sends the cleanup request at most
\* once, and only in teardown; teardown sends it exactly when the token
\* cache it was given holds a token for user 1; a cleanup answer other than
\* 200 is reported as a failure and no second cleanup request follows.
C23_CleanupAtMostOnce ==
    script = "directGroup" =>
       /\ sent.cleanup <= 1
       /\ phase # "done" => sent.cleanup = 0
       /\ phase = "done" =>
             (sent.cleanup = 1 <=> ownerUserId \in setupData.tokenCache)
       /\ teardownResult \in {"cleaned", "cleanupFailed"} <=> sent.cleanup = 1
       /\ ownerUserId \in setupData.tokenCache => ownerUserId \in loggedIn

C23_Witness ==
    /\ script = "directGroup"
    /\ phase = "done"
    /\ teardownResult = "cleanupFailed"
    /\ sent.cleanup = 1

\* C24: in the direct-group test, whatever the order in which setup and the
\* virtual users (some of which share a user) run, every value stored under
\* key u in the cache setup builds or in a virtual user's copy is a
\* non-empty token that a login request with u's credentials returned; a
\* stored entry is never replaced or removed; so an iteration that goes on
\* with a token goes on with one of its own user.
Caches == {tokenCache} \cup {vuCache[v] : v \in 1..MaxVU}

EntryValid(e) ==
    /\ ~e.token.empty
    /\ e.token.user = e.key
    /\ e.token.login \in 1..sent.login

CacheValid ==
    /\ \A c \in Caches :
          /\ \A e \in c : EntryValid(e)
          /\ \A e, f \in c : e.key = f.key => e = f
    /\ (lastIter # NoIter /\ ~lastIter.token.empty) =>
          lastIter.token.user = lastIter.user

C24_CacheHoldsOwnTokens ==
    [][/\ CacheValid'
       /\ \A e \in tokenCache : e \in tokenCache'
       /\ phase = "load" =>
             \A v \in 1..MaxVU : \A e \in vuCache[v] : e \in vuCache'[v]]_vars

\* two virtual users of the same user hold different tokens for it
C24_Witness ==
    /\ phase = "load"
    /\ runUser(1) = runUser(MaxVU)
    /\ cacheGet(tokenCache, runUser(1)).empty
    /\ ~cacheGet(vuCache[1], runUser(1)).empty
    /\ ~cacheGet(vuCache[MaxVU], runUser(1)).empty
    /\ cacheGet(vuCache[1], runUser(1)) # cacheGet(vuCache[MaxVU], runUser(1))
    /\ ~cacheGet(vuCache[2], runUser(2)).empty

\* C25 as stated: in the ai-stress test ai_messages_total equals
\* ai_response_success + ai_response_failed, and ai_response_timeout is at
\* most ai_response_failed.
C25_Original ==
    script = "aiStress" =>
       /\ counter["ai_messages_total"]
             = counter["ai_response_success"] + counter["ai_response_failed"]
       /\ counter["ai_response_timeout"] <= counter["ai_response_failed"]

\* C26: every call of the ai-stress sendAIMessage adds one sample to each of
\* ai_success_rate, ai_timeout_rate and ai_error_rate, and exactly one of
\* the three is true: the success sample when the answer is a 200 with
\* non-null data, the timeout sample when the call failed and timed out,
\* the error sample when it failed without timing out.
AIRates == {"ai_success_rate", "ai_timeout_rate", "ai_error_rate"}

C26_OneTrueSamplePerCall ==
    [][(script = "aiStress" /\ lastCall'.fn = "sendAIMessage") =>
        LET r == lastCall'.resp
            dn(k) == rate'[k].n - rate[k].n
            dt(k) == rate'[k].t - rate[k].t
            ok == r.status = 200 /\ r.body = "data"
        IN  /\ \A k \in AIRates : dn(k) = 1
            /\ dt("ai_success_rate") + dt("ai_timeout_rate")
                  + dt("ai_error_rate") = 1
            /\ dt("ai_success_rate") = 1 <=> ok
            /\ dt("ai_timeout_rate") = 1 <=> (~ok /\ r.timed_out)
            /\ dt("ai_error_rate") = 1 <=> (~ok /\ ~r.timed_out)]_vars

\* calls of all three kinds were made
C26_Witness ==
    /\ script = "aiStress"
    /\ lastCall.fn = "sendAIMessage"
    /\ rate["ai_success_rate"] = [t |-> 1, n |-> 3]
    /\ rate["ai_timeout_rate"] = [t |-> 1, n |-> 3]
    /\ rate["ai_error_rate"] = [t |-> 1, n |-> 3]

\* C27: in every scenario function of every script the gauges active_users,
\* active_ai_users, active_translation_users and active_feedback_users are
\* balanced on every path that ends with the end of the function or with a
\* return: each gauge gets as many add(-1) as add(1) calls, and at no point
\* of the call more add(-1) than add(1).
UserGauges ==
    {"active_users", "active_ai_users", "active_translation_users",
     "active_feedback_users"}

AddCount(calls, g, d, n) ==
    Cardinality({k \in 1..n : calls[k] = <<g, d>>})

C27_GaugesBalanced ==
    phase = "iterated" =>
       \A g \in UserGauges :
          /\ AddCount(trace, g, 1, Len(trace))
                = AddCount(trace, g, -1, Len(trace))
          /\ \A n \in 0..Len(trace) :
                AddCount(trace, g, -1, n) <= AddCount(trace, g, 1, n)
          /\ \A k \in 1..Len(trace) : trace[k][2] \in {1, -1}

\* a return in the middle, and the path with the most gauge calls
C27_Witness ==
    /\ phase = "iterated"
    /\ \/ /\ script = "aiStress"
          /\ input.f = "rolePlayScenario"
          /\ input.token
          /\ ~input.room
          /\ trace = <<<<"active_ai_users", 1>>, <<"active_ai_users", -1>>>>
       \/ /\ script = "comprehensiveAI"
          /\ input.f = "casualUserScenario"
          /\ Len(trace) = 6

\* C28: a call of the comprehensive-with-ai sendMessage with translation
\* enabled, whose answer is not a 200 with an unparsable body, adds one to
\* translation_requested and one to exactly one of translation_by_ollama,
\* translation_by_openai and translation_failed (so the first stays the sum
\* of the other three over such calls); a successful call counts as Ollama
\* exactly when its latency is below 3000 ms and as OpenAI otherwise;
\* translation_fallback_rate gets a sample only for successful calls, true
\* exactly in the OpenAI case; a call with translation disabled changes
\* none of the translation metrics.
TranslationCounters ==
    {"translation_requested", "translation_by_ollama",
     "translation_by_openai", "translation_failed"}

TranslationRates ==
    {"translation_success_rate", "translation_ollama_success_rate",
     "translation_fallback_rate"}

C28_TranslationAccounting ==
    [][lastCall'.fn = "sendMessage" =>
        LET r == lastCall'.resp
            dc(k) == counter'[k] - counter[k]
            dn(k) == rate'[k].n - rate[k].n
            dt(k) == rate'[k].t - rate[k].t
            ok == r.status = 200
            parsable == ~(ok /\ r.body = "garbage")
        IN  /\ (input'.enableTranslation /\ parsable) =>
                  /\ dc("translation_requested") = 1
                  /\ dc("translation_by_ollama") + dc("translation_by_openai")
                        + dc("translation_failed") = 1
                  /\ dc("translation_failed") = 1 <=> ~ok
                  /\ dc("translation_by_ollama") = 1
                        <=> (ok /\ input'.latency < 3000)
                  /\ dc("translation_by_openai") = 1
                        <=> (ok /\ input'.latency >= 3000)
                  /\ dn("translation_fallback_rate") = (IF ok THEN 1 ELSE 0)
                  /\ dt("translation_fallback_rate") = 1
                        <=> dc("translation_by_openai") = 1
            /\ dn("translation_fallback_rate") = 1 => ok
            /\ ~input'.enableTranslation =>
                  /\ \A k \in TranslationCounters : dc(k) = 0
                  /\ \A k \in TranslationRates : dn(k) = 0 /\ dt(k) = 0]_vars

\* one call of each kind was made
C28_Witness ==
    /\ lastCall.fn = "sendMessage"
    /\ counter["translation_requested"] = 3
    /\ counter["translation_by_ollama"] = 1
    /\ counter["translation_by_openai"] = 1
    /\ counter["translation_failed"] = 1
    /\ rate["translation_fallback_rate"] = [t |-> 1, n |-> 2]

\* C29 as stated: in every room-manager scenario the member id list of the
\* create request has neither the manager's id nor an id twice, and an
\* extra invite is sent only for a user who is neither the manager nor in
\* that list.
C29_Original ==
    phase = "iterated" =>
       LET ids == trace[1].ids
       IN  /\ \A x \in 1..Len(ids) : ids[x] # input.user
           /\ \A x, y \in 1..Len(ids) : x # y => ids[x] # ids[y]
           /\ Len(trace) = 2 =>
                 /\ trace[2].ids[1] # input.user
                 /\ \A x \in 1..Len(ids) : ids[x] # trace[2].ids[1]

\* C30: in casualUserScenario of the comprehensive script a user whose
\* direct and group room lists are both empty sends no message read and no
\* message send request in that iteration, also when a shared room was
\* joined with success: each room list is requested once and not again
\* after the join, and every read and send goes to a room of these two
\* lists.
ReqCount(name) == Cardinality({k \in 1..Len(trace) : trace[k].req = name})

ReadsAndSends ==
    {k \in 1..Len(trace) :
        trace[k].req \in {"getMessages", "sendMessageViaREST"}}

C30_NoReadOrSendAfterJoin ==
    phase = "iterated" =>
       /\ (input.directRooms = {} /\ input.groupRooms = {}) =>
             ReadsAndSends = {}
       /\ ReqCount("getDirectRoomList") <= 1
       /\ ReqCount("getGroupRoomList") <= 1
       /\ \A k \in ReadsAndSends :
             \/ trace[k].type = "DIRECT" /\ trace[k].room \in input.directRooms
             \/ trace[k].type = "GROUP" /\ trace[k].room \in input.groupRooms
       /\ \A k \in 1..Len(trace) :
             trace[k].req = "joinGroupRoom" => ReadsAndSends = {}

\* both lists empty, the join of a shared room succeeds, both draws say yes
C30_Witness ==
    /\ phase = "iterated"
    /\ input.loginOk
    /\ input.directRooms = {}
    /\ input.groupRooms = {}
    /\ input.joinOk
    /\ input.readDraw
    /\ input.sendDraw
    /\ Len(trace) = 4
    /\ trace[4].req = "joinGroupRoom"

====
